---- MODULE Spec2Model ----
(***************************************************************************)
(* State-machine model of the query cache of ww-infinite-query:            *)
(*   QueryCache     (src/unnamed/part_000, lines 256-531)                  *)
(*   QueryObserver  (src/src/core/QueryObserver.js)                        *)
(*   isStale / QueryStatus (src/src/core/utils.js)                         *)
(* JavaScript runs every handler to completion, so one action is one       *)
(* handler call up to its first await; the continuation of an awaited      *)
(* producer is the separate action Settle.  Entries are objects: closures  *)
(* (the fetch continuation, the subscribe disposer, the eviction timer)    *)
(* keep the entry OBJECT they were created with, so the store is a map     *)
(* from key to object id over a heap of entry objects.                     *)
(***************************************************************************)
EXTENDS Integers, Sequences, FiniteSets, TLC

\* ------------------------------------------------------------------ bounds
MaxCalls == 2      \* producer invocations in one behaviour of Spec
MaxObjs  == 2      \* entry objects created in one behaviour of Spec
MaxTime  == 2      \* last value of the clock
StaleHorizon == 1002   \* last value of the clock in SpecStale
FamilyCalls == 3   \* producer invocations in one behaviour of SpecFamily
FamilyObjs  == 3   \* entry objects created in one behaviour of SpecFamily
MaxPage     == 4   \* largest page parameter requested in SpecPages
MaxTasks    == 3   \* functions of the component suspended at one time
PageCalls   == 5   \* producer invocations in one behaviour of SpecPages

\* --------------------------------------------------------------- constants
Infinity == -1     \* JavaScript's Infinity; the code only ever tests it by ===

IDLE    == "idle"
LOADING == "loading"
SUCCESS == "success"
ERROR   == "error"

Undefined == "undefined"     \* JavaScript undefined (entry.data before any success)
Null      == "null"          \* JavaScript null (entry.error when there is none)
Values    == {"v1", "v2"}    \* payloads a producer resolves to
Errors    == {"e1"}          \* errors a producer rejects with

\* ------------------------------------------------------------------- keys
NoParams  == "{}"
P1        == "{\"id\":1}"
QueryKeys == {"posts", "users"}

\* hashKey of a text key: the text itself.
BaseKey(queryKey) == queryKey

\* _updateKeys: the composite key is the base key when params is empty,
\* hashKey([queryKey, params]) otherwise.
CompositeKey(queryKey, params) ==
    IF params = NoParams
    THEN BaseKey(queryKey)
    ELSE "[\"" \o queryKey \o "\"," \o params \o "]"

Keys     == {CompositeKey("posts", NoParams), CompositeKey("posts", P1),
             CompositeKey("users", NoParams)}
BaseKeys == {BaseKey(q) : q \in QueryKeys}
\* The variations of the family "posts"
PostsKeys == {CompositeKey("posts", NoParams), CompositeKey("posts", P1)}

\* The family every caller of the store passes with a composite key:
\* hashKey(queryKey) of the same options object.
FamilyOf(k) ==
    CHOOSE b \in BaseKeys : \E p \in {NoParams, P1} : CompositeKey(b, p) = k

Obs     == {"o1", "o2"}
Ext     == "ext"             \* a direct caller of the store
Callers == Obs \cup {Ext}

VARIABLES
    cache,      \* QueryCache._cache: key -> entry object id, 0 when not resident
    heap,       \* entry objects ever created, by id
    registry,   \* QueryCache._keyRegistry: family -> set of composite keys
    timers,     \* pending setTimeout callbacks armed by scheduleGC
    calls,      \* producer invocations: the async closures of fetch
    obs,        \* the QueryObserver instances (options, keys, flags)
    disposer,   \* per observer: the entry object its _unsubscribe closes over, 0 when none
    lastSnap,   \* per observer: the snapshot last passed to onChange during the last action
    delivered,  \* per observer: onChange invocations during the last action
    awaiting,   \* per caller: the calls whose promise it was handed and still awaits
    now         \* Date.now()

vars == <<cache, heap, registry, timers, calls, obs, disposer, lastSnap,
          delivered, awaiting, now>>

\* ------------------------------------------------------------------ utils
\* A staleness test that already counts the boundary instant as stale
isStaleInclusive(fetchedAt, staleTime) ==
    IF staleTime = Infinity THEN FALSE
    ELSE IF fetchedAt = 0 THEN TRUE
    ELSE now - fetchedAt >= staleTime

\* isStale(fetchedAt, staleTime)
isStale(fetchedAt, staleTime) ==
    IF staleTime = Infinity THEN FALSE
    ELSE IF fetchedAt = 0 THEN TRUE
    ELSE now - fetchedAt > staleTime

\* The entry QueryCache.get creates.
NewEntry ==
    [data |-> Undefined, error |-> Null, status |-> IDLE, fetchedAt |-> 0,
     promise |-> 0, subscribers |-> {}, gcTimeout |-> FALSE]

NoSnap == [status |-> "none"]

\* QueryObserver._buildState
BuildState(entry, o) ==
    [data       |-> entry.data,
     error      |-> entry.error,
     status     |-> entry.status,
     isLoading  |-> entry.status = LOADING,
     isFetching |-> entry.promise # 0,
     isStale    |-> isStale(entry.fetchedAt, obs[o].staleTime),
     isSuccess  |-> entry.status = SUCCESS,
     isError    |-> entry.status = ERROR,
     isIdle     |-> entry.status = IDLE,
     fetchedAt  |-> entry.fetchedAt]

\* --------------------------------------------------------- the store, as
\* operators from a store state S to the store state after the call
Store ==
    [cache |-> cache, heap |-> heap, registry |-> registry, timers |-> timers,
     calls |-> calls, disposer |-> disposer,
     lastSnap |-> [o \in Obs |-> NoSnap],
     delivered |-> [o \in Obs |-> 0], awaiting |-> awaiting]

Resident(S, k) == S.cache[k] # 0
EntryOf(S, k)  == S.heap[S.cache[k]]

\* QueryCache._registerKey
RegisterKey(S, k, b) ==
    [S EXCEPT !.registry =
        [f \in DOMAIN S.registry \cup {b} |->
            IF f = b
            THEN (IF b \in DOMAIN S.registry THEN S.registry[b] ELSE {}) \cup {k}
            ELSE S.registry[f]]]

\* QueryCache._unregisterKey
UnregisterKey(S, k, b) ==
    IF b \notin DOMAIN S.registry THEN S
    ELSE LET left == S.registry[b] \ {k}
         IN  [S EXCEPT !.registry =
                 [f \in (IF left = {} THEN DOMAIN S.registry \ {b}
                                      ELSE DOMAIN S.registry) |->
                     IF f = b THEN left ELSE S.registry[f]]]

\* QueryCache.get(compositeKey, baseKey); baseKey "" is a call without one
Get(S, k, b) ==
    LET S1 == IF Resident(S, k) THEN S
              ELSE [S EXCEPT !.heap = Append(@, NewEntry),
                             !.cache[k] = Len(S.heap) + 1]
    IN  IF b # "" THEN RegisterKey(S1, k, b) ELSE S1

\* The onChange call of observer o with the snapshot of entry object id
EmitState(S, o, id) ==
    [S EXCEPT !.lastSnap[o] = BuildState(S.heap[id], o),
              !.delivered[o] = @ + 1]

\* QueryCache._notify: every subscriber of the entry RESIDENT under the key
\* is called with that entry.
Notify(S, k) ==
    IF ~Resident(S, k) THEN S
    ELSE LET id == S.cache[k]
             subs == S.heap[id].subscribers
         IN  [S EXCEPT
                !.lastSnap = [o \in Obs |->
                    IF o \in subs THEN BuildState(S.heap[id], o) ELSE @[o]],
                !.delivered = [o \in Obs |->
                    IF o \in subs THEN @[o] + 1 ELSE @[o]]]

\* A fetch that starts a producer whether or not one is in flight
FetchNoDedup(S, k, b) ==
    LET S1 == Get(S, k, b)
        id == S1.cache[k]
        S2 == IF S1.heap[id].status = IDLE
              THEN [S1 EXCEPT !.heap[id].status = LOADING]
              ELSE S1
        S3 == Notify(S2, k)
    IN  [S3 EXCEPT
           !.calls = Append(@, [key |-> k, obj |-> id, pending |-> TRUE]),
           !.heap[id].promise = Len(S3.calls) + 1]

\* A fetch that shows Loading whatever the entry's status was
FetchAlwaysLoading(S, k, b) ==
    LET S1 == Get(S, k, b)
        id == S1.cache[k]
    IN  IF S1.heap[id].promise # 0 THEN S1
        ELSE LET S2 == [S1 EXCEPT !.heap[id].status = LOADING]
                 S3 == Notify(S2, k)
             IN  [S3 EXCEPT
                    !.calls = Append(@, [key |-> k, obj |-> id, pending |-> TRUE]),
                    !.heap[id].promise = Len(S3.calls) + 1]

\* QueryCache.fetch up to the await of the producer
Fetch(S, k, b) ==
    LET S1 == Get(S, k, b)
        id == S1.cache[k]
    IN  IF S1.heap[id].promise # 0 THEN S1
        ELSE LET S2 == IF S1.heap[id].status = IDLE
                       THEN [S1 EXCEPT !.heap[id].status = LOADING]
                       ELSE S1
                 S3 == Notify(S2, k)
             IN  [S3 EXCEPT
                    !.calls = Append(@, [key |-> k, obj |-> id, pending |-> TRUE]),
                    !.heap[id].promise = Len(S3.calls) + 1]

\* A caller's await of the promise fetch() handed back: entry.promise
Await(S, c, k) ==
    [S EXCEPT !.awaiting[c] = @ \cup {EntryOf(S, k).promise}]

\* A settled call: its closure is gone, its awaiters have resumed
Settled(S, p) ==
    [S EXCEPT !.calls[p] = [key |-> "", obj |-> 0, pending |-> FALSE],
              !.awaiting = [c \in Callers |-> @[c] \ {p}]]

\* A success continuation that leaves the earlier error on the entry
ResolveKeepsError(S, p, v) ==
    LET id == S.calls[p].obj
        S1 == [S EXCEPT !.heap[id].data = v,
                        !.heap[id].status = SUCCESS,
                        !.heap[id].fetchedAt = now]
        S2 == [S1 EXCEPT !.heap[id].promise = 0]
    IN  Settled(Notify(S2, S.calls[p].key), p)

\* A success continuation that notifies before it clears entry.promise
ResolveNotifyFirst(S, p, v) ==
    LET id == S.calls[p].obj
        S1 == [S EXCEPT !.heap[id].data = v,
                        !.heap[id].error = Null,
                        !.heap[id].status = SUCCESS,
                        !.heap[id].fetchedAt = now]
        S2 == Notify(S1, S.calls[p].key)
    IN  Settled([S2 EXCEPT !.heap[id].promise = 0], p)

\* The continuation of fetch once the producer has resolved with v
Resolve(S, p, v) ==
    LET id == S.calls[p].obj
        S1 == [S EXCEPT !.heap[id].data = v,
                        !.heap[id].error = Null,
                        !.heap[id].status = SUCCESS,
                        !.heap[id].fetchedAt = now]
        S2 == [S1 EXCEPT !.heap[id].promise = 0]
    IN  Settled(Notify(S2, S.calls[p].key), p)

\* A failure continuation that sets Error even over retained data
RejectAlwaysError(S, p, e) ==
    LET id == S.calls[p].obj
        S1 == [S EXCEPT !.heap[id].error = e,
                        !.heap[id].status = ERROR]
        S2 == [S1 EXCEPT !.heap[id].promise = 0]
    IN  Settled(Notify(S2, S.calls[p].key), p)

\* The continuation of fetch once the producer has rejected with e
Reject(S, p, e) ==
    LET id == S.calls[p].obj
        S1 == [S EXCEPT !.heap[id].error = e,
                        !.heap[id].status =
                            IF S.heap[id].data = Undefined THEN ERROR ELSE @]
        S2 == [S1 EXCEPT !.heap[id].promise = 0]
    IN  Settled(Notify(S2, S.calls[p].key), p)

\* An invalidate that also drops the entry's in-flight marker
InvalidateAndCancel(S, k) ==
    IF Resident(S, k)
    THEN Notify([S EXCEPT !.heap[S.cache[k]].fetchedAt = 0,
                          !.heap[S.cache[k]].promise = 0], k)
    ELSE S

\* QueryCache.invalidate
Invalidate(S, k) ==
    IF Resident(S, k)
    THEN Notify([S EXCEPT !.heap[S.cache[k]].fetchedAt = 0], k)
    ELSE S

RECURSIVE InvalidateEach(_, _)
InvalidateEach(S, ks) ==
    IF ks = {} THEN S
    ELSE LET k == CHOOSE x \in ks : TRUE
         IN  InvalidateEach(Invalidate(S, k), ks \ {k})

\* A family invalidation that ignores the family and takes every entry
InvalidateEveryFamily(S, b) ==
    InvalidateEach(S, {k \in Keys : Resident(S, k)})

\* QueryCache.invalidateByKey
InvalidateByKey(S, b) ==
    IF b \in DOMAIN S.registry THEN InvalidateEach(S, S.registry[b]) ELSE S

\* QueryCache.invalidateAll
InvalidateAll(S) == InvalidateEach(S, {k \in Keys : Resident(S, k)})

\* clearTimeout(entry.gcTimeout): the timer the entry's handle names
ClearTimer(S, id) ==
    [S EXCEPT !.timers = {t \in @ : ~(t.obj = id /\ t.handle)}]

\* QueryCache.remove
Remove(S, k, b) ==
    LET S1 == IF Resident(S, k)
              THEN LET id == S.cache[k]
                       S0 == IF S.heap[id].gcTimeout THEN ClearTimer(S, id) ELSE S
                   IN  [S0 EXCEPT !.cache[k] = 0]
              ELSE S
    IN  IF b # "" THEN UnregisterKey(S1, k, b) ELSE S1

RECURSIVE RemoveEach(_, _, _)
RemoveEach(S, ks, b) ==
    IF ks = {} THEN S
    ELSE LET k == CHOOSE x \in ks : TRUE
         IN  RemoveEach(Remove(S, k, b), ks \ {k}, b)

\* QueryCache.removeByKey
RemoveByKey(S, b) ==
    IF b \in DOMAIN S.registry THEN RemoveEach(S, S.registry[b], b) ELSE S

\* A subscribe that leaves a pending eviction timer running
SubscribeKeepsTimer(S, k, o, b) ==
    LET S1 == Get(S, k, b)
        id == S1.cache[k]
    IN  [S1 EXCEPT !.heap[id].subscribers = @ \cup {o},
                   !.disposer[o] = id]

\* QueryCache.subscribe; the disposer it returns closes over the entry object
Subscribe(S, k, o, b) ==
    LET S1 == Get(S, k, b)
        id == S1.cache[k]
        S2 == IF S1.heap[id].gcTimeout
              THEN [ClearTimer(S1, id) EXCEPT !.heap[id].gcTimeout = FALSE]
              ELSE S1
    IN  [S2 EXCEPT !.heap[id].subscribers = @ \cup {o},
                   !.disposer[o] = id]

\* A disposer that leaves the callback in the subscriber set
DisposeKeeps(S, o) == S

\* this._unsubscribe(): the disposer deletes the callback from ITS entry
Dispose(S, o) ==
    IF S.disposer[o] = 0 THEN S
    ELSE [S EXCEPT !.heap[S.disposer[o]].subscribers = @ \ {o}]

\* A scheduleGC that arms its timer even on a subscribed entry
ScheduleGCWhileSubscribed(S, k, cacheTime, b) ==
    IF ~Resident(S, k) THEN S
    ELSE LET id == S.cache[k]
             S1 == IF S.heap[id].gcTimeout THEN ClearTimer(S, id) ELSE S
         IN  IF cacheTime = Infinity THEN S1
             ELSE [S1 EXCEPT
                     !.timers = @ \cup {[obj |-> id, key |-> k, base |-> b,
                                         due |-> now + cacheTime,
                                         handle |-> TRUE]},
                     !.heap[id].gcTimeout = TRUE]

\* QueryCache.scheduleGC
ScheduleGC(S, k, cacheTime, b) ==
    IF ~Resident(S, k) THEN S
    ELSE LET id == S.cache[k]
         IN  IF S.heap[id].subscribers # {} THEN S
             ELSE LET S1 == IF S.heap[id].gcTimeout THEN ClearTimer(S, id) ELSE S
                  IN  IF cacheTime = Infinity THEN S1
                      ELSE [S1 EXCEPT
                              !.timers = {[t EXCEPT !.handle =
                                             IF t.obj = id THEN FALSE ELSE @]
                                          : t \in @}
                                  \cup {[obj |-> id, key |-> k, base |-> b,
                                         due |-> now + cacheTime,
                                         handle |-> TRUE]},
                              !.heap[id].gcTimeout = TRUE]

\* A timer callback that evicts nothing
GCCallbackKeeps(S, t) ==
    [S EXCEPT !.timers = @ \ {t}]

\* The setTimeout callback of scheduleGC
GCCallback(S, t) ==
    LET S0 == [S EXCEPT !.timers = @ \ {t}]
    IN  IF S0.heap[t.obj].subscribers = {}
        THEN LET S1 == [S0 EXCEPT !.cache[t.key] = 0]
             IN  IF t.base # "" THEN UnregisterKey(S1, t.key, t.base) ELSE S1
        ELSE S0

\* ------------------------------------------------------------- the frame
\* An entry object nothing refers to any more (not resident, no pending
\* continuation, no disposer) is unobservable: the runtime collects it.
Reachable(S, id) ==
    \/ \E k \in DOMAIN S.cache : S.cache[k] = id
    \/ \E p \in 1..Len(S.calls) : S.calls[p].pending /\ S.calls[p].obj = id
    \/ \E o \in Obs : S.disposer[o] = id

Collected == [NewEntry EXCEPT !.status = "collected"]

\* The bounds of a specification
Limits       == [objs |-> MaxObjs, calls |-> MaxCalls]
FamilyLimits == [objs |-> FamilyObjs, calls |-> FamilyCalls]

CommitIn(S, L) ==
    /\ Len(S.heap) <= L.objs
    /\ Len(S.calls) <= L.calls
    /\ cache' = S.cache
    /\ heap' = [id \in 1..Len(S.heap) |->
                    IF Reachable(S, id) THEN S.heap[id] ELSE Collected]
    /\ disposer' = S.disposer
    /\ awaiting' = S.awaiting
    /\ registry' = S.registry
    /\ timers' = S.timers
    /\ calls' = S.calls
    /\ lastSnap' = S.lastSnap
    /\ delivered' = S.delivered

Commit(S) == CommitIn(S, Limits)


\* --------------------------------------------------------- the observers
\* The option sets an observer is constructed with (constructor defaults:
\* staleTime 0, refetchInterval 0, refetchOnWindowFocus true, enabled true).
Profile1 ==
    [params |-> NoParams, staleTime |-> 0, cacheTime |-> 1,
     refetchInterval |-> 0, refetchOnWindowFocus |-> TRUE, enabled |-> TRUE]
Profiles2 ==
    {[params |-> NoParams, staleTime |-> 1, cacheTime |-> Infinity,
      refetchInterval |-> 1, refetchOnWindowFocus |-> FALSE, enabled |-> TRUE],
     [params |-> NoParams, staleTime |-> Infinity, cacheTime |-> Infinity,
      refetchInterval |-> 0, refetchOnWindowFocus |-> TRUE, enabled |-> TRUE],
     [params |-> NoParams, staleTime |-> 0, cacheTime |-> Infinity,
      refetchInterval |-> 0, refetchOnWindowFocus |-> TRUE, enabled |-> FALSE]}

\* new QueryObserver(options): _updateKeys, nothing subscribed, no timer
NewObserver(queryKey, opt) ==
    [queryKey |-> queryKey, params |-> opt.params,
     staleTime |-> opt.staleTime, cacheTime |-> opt.cacheTime,
     refetchInterval |-> opt.refetchInterval,
     refetchOnWindowFocus |-> opt.refetchOnWindowFocus,
     enabled |-> opt.enabled,
     baseKey |-> BaseKey(queryKey),
     compositeKey |-> CompositeKey(queryKey, opt.params),
     mounted |-> FALSE, refetchIntervalId |-> FALSE, intervals |-> 0,
     listening |-> FALSE]

Init ==
    /\ cache = [k \in Keys |-> 0]
    /\ heap = <<>>
    /\ registry = <<>>
    /\ timers = {}
    /\ calls = <<>>
    /\ \E b \in Profiles2 :
          obs = [o \in Obs |-> IF o = "o1" THEN NewObserver("posts", Profile1)
                               ELSE NewObserver("posts", b)]
    /\ disposer = [o \in Obs |-> 0]
    /\ lastSnap = [o \in Obs |-> NoSnap]
    /\ delivered = [o \in Obs |-> 0]
    /\ awaiting = [c \in Callers |-> {}]
    /\ now = 1

\* QueryObserver._executeFetch up to its await, for observer o
ExecuteFetch(S, o) ==
    Await(Fetch(S, obs[o].compositeKey, obs[o].baseKey), o, obs[o].compositeKey)

\* A mount-time evaluation that looks at the status alone
NeedsFetchIdleOnly(S, o) ==
    EntryOf(S, obs[o].compositeKey).status = IDLE

\* The mount-time evaluation: fetch when Idle or stale, else emit
NeedsFetch(S, o) ==
    LET e == EntryOf(S, obs[o].compositeKey)
    IN  e.status = IDLE \/ isStale(e.fetchedAt, obs[o].staleTime)

\* QueryObserver.mount
Mount(o) ==
    /\ ~obs[o].mounted
    /\ LET k  == obs[o].compositeKey
           b  == obs[o].baseKey
           S1 == Subscribe(Store, k, o, b)
           S2 == Get(S1, k, b)
       IN  Commit(IF obs[o].enabled /\ NeedsFetch(S2, o)
                  THEN ExecuteFetch(S2, o)
                  ELSE EmitState(S2, o, S2.cache[k]))
    /\ obs' = [obs EXCEPT ![o].mounted = TRUE,
                          ![o].listening = obs[o].refetchOnWindowFocus,
                          ![o].refetchIntervalId =
                              IF obs[o].refetchInterval > 0 THEN TRUE ELSE @,
                          ![o].intervals =
                              IF obs[o].refetchInterval > 0 THEN @ + 1 ELSE @]
    /\ UNCHANGED now

\* QueryObserver.unmount
Unmount(o) ==
    /\ obs[o].mounted
    /\ LET S1 == [Dispose(Store, o) EXCEPT !.disposer[o] = 0]
       IN  Commit(ScheduleGC(S1, obs[o].compositeKey, obs[o].cacheTime,
                             obs[o].baseKey))
    /\ obs' = [obs EXCEPT ![o].mounted = FALSE, ![o].listening = FALSE,
                          ![o].refetchIntervalId = FALSE,
                          ![o].intervals =
                              IF obs[o].refetchIntervalId THEN @ - 1 ELSE @]
    /\ UNCHANGED now

\* QueryObserver.refetch
Refetch(o) ==
    /\ Commit(ExecuteFetch(Store, o))
    /\ UNCHANGED <<obs, now>>

\* QueryObserver.invalidate
ObsInvalidate(o) ==
    /\ LET S1 == InvalidateByKey(Store, obs[o].baseKey)
       IN  Commit(IF obs[o].mounted /\ obs[o].enabled
                  THEN ExecuteFetch(S1, o) ELSE S1)
    /\ UNCHANGED <<obs, now>>

\* QueryObserver.invalidateCurrent
ObsInvalidateCurrent(o) ==
    /\ LET S1 == Invalidate(Store, obs[o].compositeKey)
       IN  Commit(IF obs[o].mounted /\ obs[o].enabled
                  THEN ExecuteFetch(S1, o) ELSE S1)
    /\ UNCHANGED <<obs, now>>

\* QueryObserver.getState: get (which may create the entry), then project
GetState(o) ==
    /\ Commit(Get(Store, obs[o].compositeKey, obs[o].baseKey))
    /\ UNCHANGED <<obs, now>>

\* The setInterval callback armed by mount
PollFire(o) ==
    /\ obs[o].intervals > 0
    /\ Commit(IF obs[o].enabled THEN ExecuteFetch(Store, o) ELSE Store)
    /\ UNCHANGED <<obs, now>>

\* QueryObserver._handleVisibilityChange, the document having become visible
Focus(o) ==
    /\ obs[o].listening
    /\ IF obs[o].enabled
       THEN LET S1 == Get(Store, obs[o].compositeKey, obs[o].baseKey)
            IN  Commit(IF isStale(EntryOf(S1, obs[o].compositeKey).fetchedAt,
                                  obs[o].staleTime)
                       THEN ExecuteFetch(S1, o) ELSE S1)
       ELSE Commit(Store)
    /\ UNCHANGED <<obs, now>>

\* ------------------------------------------- direct callers of the store
\* cache.get(key, baseKey)
DirectGet(k, L) ==
    /\ CommitIn(Get(Store, k, FamilyOf(k)), L)
    /\ UNCHANGED <<obs, now>>

\* await cache.fetch(key, producer, baseKey)
DirectFetch(k, L) ==
    /\ CommitIn(Await(Fetch(Store, k, FamilyOf(k)), Ext, k), L)
    /\ UNCHANGED <<obs, now>>

\* cache.invalidate(key)
DirectInvalidate(k, L) ==
    /\ CommitIn(Invalidate(Store, k), L)
    /\ UNCHANGED <<obs, now>>

\* cache.invalidateByKey(baseKey)
DirectInvalidateByKey(b, L) ==
    /\ CommitIn(InvalidateByKey(Store, b), L)
    /\ UNCHANGED <<obs, now>>

\* cache.invalidateAll()
DirectInvalidateAll(L) ==
    /\ CommitIn(InvalidateAll(Store), L)
    /\ UNCHANGED <<obs, now>>

\* cache.remove(key, baseKey), the optional baseKey given or not
DirectRemove(k, b, L) ==
    /\ CommitIn(Remove(Store, k, b), L)
    /\ UNCHANGED <<obs, now>>

\* cache.removeByKey(baseKey)
DirectRemoveByKey(b, L) ==
    /\ CommitIn(RemoveByKey(Store, b), L)
    /\ UNCHANGED <<obs, now>>

\* ------------------------------------------------ asynchronous re-entries
\* The producer of call p resolves with payload v
SettleOk(p, v, L) ==
    /\ calls[p].pending
    /\ CommitIn(Resolve(Store, p, v), L)
    /\ UNCHANGED <<obs, now>>

\* The producer of call p rejects with error e
SettleErr(p, e, L) ==
    /\ calls[p].pending
    /\ CommitIn(Reject(Store, p, e), L)
    /\ UNCHANGED <<obs, now>>

\* An eviction timer fires, no earlier than its delay
GCFire(t) ==
    /\ now >= t.due
    /\ Commit(GCCallback(Store, t))
    /\ UNCHANGED <<obs, now>>

\* The clock advances
Tick ==
    /\ now < MaxTime
    /\ now' = now + 1
    /\ Commit(Store)
    /\ UNCHANGED obs

Next ==
    \/ \E o \in Obs : Mount(o)
    \/ \E o \in Obs : Unmount(o)
    \/ \E o \in Obs : Refetch(o)
    \/ \E o \in Obs : ObsInvalidate(o)
    \/ \E o \in Obs : ObsInvalidateCurrent(o)
    \/ \E o \in Obs : GetState(o)
    \/ \E o \in Obs : PollFire(o)
    \/ \E o \in Obs : Focus(o)
    \/ \E k \in PostsKeys : DirectGet(k, Limits)
    \/ \E k \in PostsKeys : DirectFetch(k, Limits)
    \/ \E k \in PostsKeys : DirectInvalidate(k, Limits)
    \/ DirectInvalidateByKey("posts", Limits)
    \/ DirectInvalidateAll(Limits)
    \/ \E k \in PostsKeys : \E b \in {FamilyOf(k), ""} : DirectRemove(k, b, Limits)
    \/ DirectRemoveByKey("posts", Limits)
    \/ \E p \in 1..Len(calls) : \E v \in Values : SettleOk(p, v, Limits)
    \/ \E p \in 1..Len(calls) : \E e \in Errors : SettleErr(p, e, Limits)
    \/ \E t \in timers : GCFire(t)
    \/ Tick

Spec == Init /\ [][Next]_vars

\* The store before any use, its observers constructed and never mounted
InitFamily ==
    /\ Init
    /\ obs["o2"].staleTime = 1

\* The store alone, driven by direct callers over both families
NextFamily ==
    \/ \E k \in Keys : DirectGet(k, FamilyLimits)
    \/ \E k \in Keys : DirectFetch(k, FamilyLimits)
    \/ \E k \in Keys : DirectInvalidate(k, FamilyLimits)
    \/ \E b \in BaseKeys : DirectInvalidateByKey(b, FamilyLimits)
    \/ DirectInvalidateAll(FamilyLimits)
    \/ \E k \in Keys : \E b \in {FamilyOf(k), ""} : DirectRemove(k, b, FamilyLimits)
    \/ \E b \in BaseKeys : DirectRemoveByKey(b, FamilyLimits)
    \/ \E p \in 1..Len(calls) : \E v \in Values : SettleOk(p, v, FamilyLimits)
    \/ \E p \in 1..Len(calls) : \E e \in Errors : SettleErr(p, e, FamilyLimits)

SpecFamily == InitFamily /\ [][NextFamily]_vars

\* ------------------------------------------------- staleness over time
\* An entry that succeeded at time 1, or that was invalidated since, read
\* by observers with finite stale times as the clock runs.
StaleTimes1 == {0, 1000}
StaleTimes2 == {1, 999}

InitStale ==
    /\ \E f \in {0, 1} :
          heap = <<[NewEntry EXCEPT !.data = "v1", !.status = SUCCESS,
                                    !.fetchedAt = f]>>
    /\ cache = [k \in Keys |-> IF k = CompositeKey("posts", NoParams) THEN 1 ELSE 0]
    /\ registry = [b \in {BaseKey("posts")} |-> {CompositeKey("posts", NoParams)}]
    /\ timers = {}
    /\ calls = <<>>
    /\ \E s1 \in StaleTimes1 : \E s2 \in StaleTimes2 :
          obs = [o \in Obs |->
                    NewObserver("posts",
                        [Profile1 EXCEPT !.staleTime = IF o = "o1" THEN s1 ELSE s2])]
    /\ disposer = [o \in Obs |-> 0]
    /\ lastSnap = [o \in Obs |-> NoSnap]
    /\ delivered = [o \in Obs |-> 0]
    /\ awaiting = [c \in Callers |-> {}]
    /\ now = 1

\* QueryObserver.getState, the snapshot it returns kept in lastSnap
ReadState(o) ==
    /\ LET k  == obs[o].compositeKey
           S1 == Get(Store, k, obs[o].baseKey)
       IN  Commit([S1 EXCEPT !.lastSnap[o] = BuildState(EntryOf(S1, k), o)])
    /\ UNCHANGED <<obs, now>>

\* A millisecond passes
Elapse ==
    /\ now < StaleHorizon
    /\ now' = now + 1
    /\ Commit(Store)
    /\ UNCHANGED obs

NextStale ==
    \/ \E o \in Obs : ReadState(o)
    \/ Elapse

SpecStale == InitStale /\ [][NextStale]_vars

\* ------------------------------------------------ eviction and its races
\* The cacheTime the second observer is constructed with
CacheTimes2 == {1, Infinity}

\* Two observers of one key, the first evicting after cacheTime 1
InitGC ==
    /\ cache = [k \in Keys |-> 0]
    /\ heap = <<>>
    /\ registry = <<>>
    /\ timers = {}
    /\ calls = <<>>
    /\ \E c \in CacheTimes2 :
          obs = [o \in Obs |->
                    NewObserver("posts",
                        [Profile1 EXCEPT !.cacheTime = IF o = "o1" THEN 1 ELSE c])]
    /\ disposer = [o \in Obs |-> 0]
    /\ lastSnap = [o \in Obs |-> NoSnap]
    /\ delivered = [o \in Obs |-> 0]
    /\ awaiting = [c \in Callers |-> {}]
    /\ now = 1

\* cache.scheduleGC(key, cacheTime, baseKey) by a client that never
\* subscribed (the page sequencer on unmount)
DirectScheduleGC(k, ttl, L) ==
    /\ CommitIn(ScheduleGC(Store, k, ttl, FamilyOf(k)), L)
    /\ UNCHANGED <<obs, now>>

NextGC ==
    \/ \E o \in Obs : Mount(o)
    \/ \E o \in Obs : Unmount(o)
    \/ \E k \in PostsKeys : DirectFetch(k, Limits)
    \/ \E k \in PostsKeys : \E ttl \in {0, 1} : DirectScheduleGC(k, ttl, Limits)
    \/ \E k \in PostsKeys : \E b \in {FamilyOf(k), ""} : DirectRemove(k, b, Limits)
    \/ \E p \in 1..Len(calls) : \E v \in Values : SettleOk(p, v, Limits)
    \/ \E p \in 1..Len(calls) : \E e \in Errors : SettleErr(p, e, Limits)
    \/ \E t \in timers : GCFire(t)
    \/ Tick

\* The event loop runs every timer that is due, and time passes
SpecGC ==
    /\ InitGC
    /\ [][NextGC]_vars
    /\ WF_vars(\E t \in timers : GCFire(t))

\* ------------------------------------------------------- option changes
\* The patches updateOptions is called with: one option each
Patches ==
    {[queryKey |-> "users"], [queryKey |-> "posts"],
     [params |-> P1], [params |-> NoParams],
     [enabled |-> TRUE], [enabled |-> FALSE],
     [refetchInterval |-> 1], [refetchInterval |-> 2], [refetchInterval |-> 0],
     [refetchOnWindowFocus |-> TRUE], [refetchOnWindowFocus |-> FALSE]}

\* A change of period that arms the new timer and leaves the old one alive
RearmNoClear(ob) ==
    IF ob.refetchInterval > 0 /\ ob.mounted
    THEN [ob EXCEPT !.intervals = @ + 1, !.refetchIntervalId = TRUE]
    ELSE ob

\* updateOptions on a changed refetchInterval: clearInterval of the timer
\* held, then setInterval when the new period is positive and mounted
Rearm(ob) ==
    LET cleared == IF ob.refetchIntervalId
                   THEN [ob EXCEPT !.intervals = @ - 1,
                                   !.refetchIntervalId = FALSE]
                   ELSE ob
    IN  IF ob.refetchInterval > 0 /\ ob.mounted
        THEN [cleared EXCEPT !.intervals = @ + 1, !.refetchIntervalId = TRUE]
        ELSE cleared

\* Object.assign(this._options, newOptions) followed by _updateKeys
Patched(ob, patch) ==
    LET opt(f) == IF f \in DOMAIN patch THEN patch[f] ELSE ob[f]
    IN  [ob EXCEPT !.queryKey = opt("queryKey"),
                   !.params = opt("params"),
                   !.enabled = opt("enabled"),
                   !.refetchInterval = opt("refetchInterval"),
                   !.refetchOnWindowFocus = opt("refetchOnWindowFocus"),
                   !.baseKey = BaseKey(opt("queryKey")),
                   !.compositeKey = CompositeKey(opt("queryKey"), opt("params"))]

\* entry.status === IDLE || isStale(entry.fetchedAt, staleTime), at key k
IdleOrStale(S, k, staleTime) ==
    EntryOf(S, k).status = IDLE \/ isStale(EntryOf(S, k).fetchedAt, staleTime)

\* QueryObserver.updateOptions, up to the awaits of the fetches it starts
UpdateOptions(o, patch) ==
    LET old == obs[o]
        new == Patched(old, patch)
        k   == new.compositeKey
        b   == new.baseKey
        S1  == IF k # old.compositeKey /\ old.mounted
               THEN LET A == Dispose(Store, o)
                        B == ScheduleGC(A, old.compositeKey, new.cacheTime, b)
                        C == Subscribe(B, k, o, b)
                        D == Get(C, k, b)
                    IN  IF ~new.enabled THEN C
                        ELSE IF IdleOrStale(D, k, new.staleTime)
                             THEN Await(Fetch(D, k, b), o, k)
                             ELSE EmitState(D, o, D.cache[k])
               ELSE Store
        S2  == IF ~old.enabled /\ new.enabled /\ old.mounted
               THEN LET D == Get(S1, k, b)
                    IN  IF IdleOrStale(D, k, new.staleTime)
                        THEN Await(Fetch(D, k, b), o, k)
                        ELSE D
               ELSE S1
    IN  /\ k \in Keys
        /\ Commit(S2)
        /\ obs' = [obs EXCEPT ![o] =
                      [(IF old.refetchInterval # new.refetchInterval
                        THEN Rearm(new) ELSE new) EXCEPT
                         !.listening =
                             IF old.refetchOnWindowFocus # new.refetchOnWindowFocus
                             THEN new.refetchOnWindowFocus /\ old.mounted
                             ELSE @]]
        /\ UNCHANGED now

\* The observer whose options change is constructed with the defaults and
\* cacheTime 1; the other one is constructed and never mounted
InitOptions ==
    /\ Init
    /\ ~obs["o2"].enabled

NextOptions ==
    \/ Mount("o1")
    \/ Unmount("o1")
    \/ \E patch \in Patches : UpdateOptions("o1", patch)
    \/ PollFire("o1")
    \/ Focus("o1")
    \/ \E p \in 1..Len(calls) : \E v \in Values : SettleOk(p, v, Limits)
    \/ \E p \in 1..Len(calls) : \E e \in Errors : SettleErr(p, e, Limits)
    \/ \E t \in timers : GCFire(t)
    \/ Tick

SpecOptions == InitOptions /\ [][NextOptions]_vars

\* ------------------------------------------- key changes next to a peer
\* Observer o1 changes its key or its enabled flag while the disabled o2
\* mounts and unmounts on "posts"; o1 evicts after 1 ms or never.
InitRekey ==
    /\ cache = [k \in Keys |-> 0]
    /\ heap = <<>>
    /\ registry = <<>>
    /\ timers = {}
    /\ calls = <<>>
    /\ \E c \in CacheTimes2 :
          obs = [o \in Obs |->
                    IF o = "o1"
                    THEN NewObserver("posts", [Profile1 EXCEPT !.cacheTime = c])
                    ELSE NewObserver("posts", [Profile1 EXCEPT !.enabled = FALSE])]
    /\ disposer = [o \in Obs |-> 0]
    /\ lastSnap = [o \in Obs |-> NoSnap]
    /\ delivered = [o \in Obs |-> 0]
    /\ awaiting = [c \in Callers |-> {}]
    /\ now = 1

NextRekey ==
    \/ \E o \in Obs : Mount(o)
    \/ \E o \in Obs : Unmount(o)
    \/ \E patch \in {p \in Patches : DOMAIN p \subseteq {"queryKey", "params", "enabled"}} :
          UpdateOptions("o1", patch)
    \/ \E p \in 1..Len(calls) : \E v \in Values : SettleOk(p, v, Limits)
    \/ \E p \in 1..Len(calls) : \E e \in Errors : SettleErr(p, e, Limits)
    \/ \E t \in timers : GCFire(t)
    \/ Tick

SpecRekey == InitRekey /\ [][NextRekey]_vars

\* ------------------------------------------- a text key spelling a list
\* Two observers: one on queryKey "posts" with params {id: 1}, one on the
\* text queryKey that hashKey([queryKey, params]) of the first produces.
AliasKey == CompositeKey("posts", P1)

InitAlias ==
    /\ cache = [k \in Keys |-> 0]
    /\ heap = <<>>
    /\ registry = <<>>
    /\ timers = {}
    /\ calls = <<>>
    /\ \E c \in CacheTimes2 :
          obs = [o \in Obs |->
                    IF o = "o1"
                    THEN NewObserver("posts", [Profile1 EXCEPT !.params = P1])
                    ELSE NewObserver(AliasKey, [Profile1 EXCEPT !.cacheTime = c])]
    /\ disposer = [o \in Obs |-> 0]
    /\ lastSnap = [o \in Obs |-> NoSnap]
    /\ delivered = [o \in Obs |-> 0]
    /\ awaiting = [c \in Callers |-> {}]
    /\ now = 1

NextAlias ==
    \/ \E o \in Obs : Mount(o)
    \/ \E o \in Obs : Unmount(o)
    \/ \E o \in Obs : Refetch(o)
    \/ \E o \in Obs : ObsInvalidate(o)
    \/ \E p \in 1..Len(calls) : \E v \in Values : SettleOk(p, v, Limits)
    \/ \E p \in 1..Len(calls) : \E e \in Errors : SettleErr(p, e, Limits)
    \/ \E t \in timers : GCFire(t)
    \/ Tick

SpecAlias == InitAlias /\ [][NextAlias]_vars

\* ------------------------------------------------------ canonical keys
\* Key descriptors: a text, a number, an ordered list of descriptors, or a
\* mapping, kept as the list of its members in insertion order, each member
\* a descriptor carrying its property name in "key".
TextKey(s)    == [t |-> "text", s |-> s,  n |-> 0, key |-> "", items |-> <<>>]
NumberKey(n)  == [t |-> "num",  s |-> "", n |-> n, key |-> "", items |-> <<>>]
ListKey(ds)   == [t |-> "list", s |-> "", n |-> 0, key |-> "", items |-> ds]
MapKey(ms)    == [t |-> "map",  s |-> "", n |-> 0, key |-> "", items |-> ms]
Member(k, d)  == [d EXCEPT !.key = k]

\* JSON.stringify of a text: quoted, its own quotes escaped
Quote(s) ==
    CASE s = "posts" -> "\"posts\""
      [] s = "a"     -> "\"a\""
      [] s = "b"     -> "\"b\""
      [] s = "id"    -> "\"id\""
      [] s = "page"  -> "\"page\""
      [] s = "[1,2]" -> "\"[1,2]\""
      [] s = "[\"posts\",{\"id\":1}]" -> "\"[\\\"posts\\\",{\\\"id\\\":1}]\""

\* JSON.stringify of a number
NumberText(n) == CASE n = 1 -> "1" [] n = 2 -> "2" [] n = 3 -> "3" [] n = 4 -> "4"
                   [] n = 5 -> "5"

\* A replacer that keeps the members in insertion order
InsertionOrder(ms) == ms

\* Object.keys(val).sort(): the property names in code-unit order
KeyOrder == <<"a", "b", "id">>

\* The replacer of hashKey: the members re-inserted in sorted name order
RECURSIVE SortedFrom(_, _)
SortedFrom(ms, i) ==
    IF i > Len(KeyOrder) THEN <<>>
    ELSE SelectSeq(ms, LAMBDA m : m.key = KeyOrder[i]) \o SortedFrom(ms, i + 1)

SortedMembers(ms) == SortedFrom(ms, 1)

\* JSON.stringify(queryKey, replacer)
RECURSIVE Json(_)
RECURSIVE JsonItems(_)
RECURSIVE JsonMembers(_)
Json(d) ==
    CASE d.t = "text" -> Quote(d.s)
      [] d.t = "num"  -> NumberText(d.n)
      [] d.t = "list" -> "[" \o JsonItems(d.items) \o "]"
      [] d.t = "map"  -> "{" \o JsonMembers(SortedMembers(d.items)) \o "}"

JsonItems(ds) ==
    IF ds = <<>> THEN ""
    ELSE Json(Head(ds)) \o (IF Len(ds) = 1 THEN "" ELSE "," \o JsonItems(Tail(ds)))

JsonMembers(ms) ==
    IF ms = <<>> THEN ""
    ELSE Quote(Head(ms).key) \o ":" \o Json(Head(ms))
             \o (IF Len(ms) = 1 THEN "" ELSE "," \o JsonMembers(Tail(ms)))

\* hashKey: a text is returned as it is, anything else serialized
hashKey(d) == IF d.t = "text" THEN d.s ELSE Json(d)

\* _updateKeys: !params || no own keys
EmptyParams(p) == p.t \in {"list", "map"} /\ p.items = <<>>

\* _updateKeys: the variation key of (queryKey, params)
VariationKey(q, p) ==
    IF EmptyParams(p) THEN hashKey(q) ELSE hashKey(ListKey(<<q, p>>))

\* new QueryObserver({queryKey, params}) with the default options
KeyedObserver(q, p) ==
    [queryKey |-> q, params |-> p,
     staleTime |-> 0, cacheTime |-> 1, refetchInterval |-> 0,
     refetchOnWindowFocus |-> TRUE, enabled |-> TRUE,
     baseKey |-> hashKey(q), compositeKey |-> VariationKey(q, p),
     mounted |-> FALSE, refetchIntervalId |-> FALSE, intervals |-> 0,
     listening |-> FALSE]

One == NumberKey(1)
Two == NumberKey(2)

\* The query keys observers are constructed with
QueryKeyDescriptors ==
    {TextKey("posts"), TextKey("[1,2]"), TextKey("[\"posts\",{\"id\":1}]"),
     ListKey(<<One, Two>>), ListKey(<<Two, One>>), ListKey(<<TextKey("posts")>>),
     MapKey(<<Member("a", One), Member("b", Two)>>),
     MapKey(<<Member("b", Two), Member("a", One)>>),
     MapKey(<<Member("a", Two), Member("b", One)>>),
     MapKey(<<Member("id", MapKey(<<Member("a", One), Member("b", Two)>>))>>),
     MapKey(<<Member("id", MapKey(<<Member("b", Two), Member("a", One)>>))>>)}

\* The params they are constructed with
ParamsDescriptors == {MapKey(<<>>), MapKey(<<Member("id", One)>>)}

InitKeys ==
    /\ cache = [k \in Keys |-> 0]
    /\ heap = <<>>
    /\ registry = <<>>
    /\ timers = {}
    /\ calls = <<>>
    /\ obs = [o \in Obs |-> KeyedObserver(TextKey("posts"), MapKey(<<>>))]
    /\ disposer = [o \in Obs |-> 0]
    /\ lastSnap = [o \in Obs |-> NoSnap]
    /\ delivered = [o \in Obs |-> 0]
    /\ awaiting = [c \in Callers |-> {}]
    /\ now = 1

\* new QueryObserver(options) in the place of observer o
Construct(o, q, p) ==
    /\ obs' = [obs EXCEPT ![o] = KeyedObserver(q, p)]
    /\ Commit(Store)
    /\ UNCHANGED now

NextKeys ==
    \E o \in Obs : \E q \in QueryKeyDescriptors : \E p \in ParamsDescriptors :
        Construct(o, q, p)

SpecKeys == InitKeys /\ [][NextKeys]_vars

\* Structural equality of descriptors: mappings compared as sets of members
RECURSIVE SameKey(_, _)
SameKey(d1, d2) ==
    /\ d1.t = d2.t
    /\ CASE d1.t = "text" -> d1.s = d2.s
         [] d1.t = "num"  -> d1.n = d2.n
         [] d1.t = "list" ->
                /\ Len(d1.items) = Len(d2.items)
                /\ \A i \in 1..Len(d1.items) : SameKey(d1.items[i], d2.items[i])
         [] d1.t = "map"  ->
                /\ {d1.items[i].key : i \in 1..Len(d1.items)}
                     = {d2.items[j].key : j \in 1..Len(d2.items)}
                /\ \A i \in 1..Len(d1.items) : \A j \in 1..Len(d2.items) :
                       d1.items[i].key = d2.items[j].key
                           => SameKey(d1.items[i], d2.items[j])

\* ---------------------------------------------------- the page sequencer
\* The component of wwElement.vue on queryKey "posts" without params. Its
\* props and reactive state are the record obs[o]; its asynchronous
\* functions suspended at "await cache.fetch" are the records of "tasks",
\* in the order in which they started to wait.
PageParams == 1..MaxPage

\* getCompositePageKey: hashKey([queryKey, 'page', pageParam])
getCompositePageKey(n) ==
    hashKey(ListKey(<<TextKey("posts"), TextKey("page"), NumberKey(n)>>))

PageKeys == {getCompositePageKey(n) : n \in PageParams}

\* A producer that asks the endpoint for page 1 whatever its key
ParamOfFirst(k) == 1

\* The page parameter a page key was computed from, which the producer
\* built for that key sends to the endpoint
ParamOf(k) == CHOOSE n \in PageParams : getCompositePageKey(n) = k

\* The body the endpoint answers for page n; its pointers end at page 3
Response(n) ==
    CASE n = 1 -> "page1" [] n = 2 -> "page2" [] n = 3 -> "page3"
      [] n = 4 -> "page4" [] n = 5 -> "page5"

\* getByPath(page, nextPagePath): 0 stands for null / undefined
NextPointer(page) ==
    CASE page = "page1" -> 2 [] page = "page2" -> 3 [] OTHER -> 0

\* getByPath(page, previousPagePath)
PreviousPointer(page) ==
    CASE page = "page2" -> 1 [] page = "page3" -> 2 [] page = "page4" -> 3
      [] OTHER -> 0

\* A derivation that counts on from the last parameter whatever the props
getNextPageParamCounting(c, lastPage) ==
    (IF c.pageParams # <<>> THEN c.pageParams[Len(c.pageParams)]
     ELSE c.initialPageParam) + 1

\* A derivation that skips a page
getNextPageParamSkipping(c, lastPage) ==
    IF c.pageParams # <<>> THEN c.pageParams[Len(c.pageParams)] + 2
    ELSE c.initialPageParam + 1

\* getNextPageParam(lastPage), 0 for undefined
getNextPageParam(c, lastPage) ==
    IF c.paths
    THEN NextPointer(lastPage)
    ELSE (IF c.pageParams # <<>> THEN c.pageParams[Len(c.pageParams)]
          ELSE c.initialPageParam) + 1

\* getPreviousPageParam(firstPage), 0 for undefined
getPreviousPageParam(c, firstPage) ==
    IF c.paths
    THEN PreviousPointer(firstPage)
    ELSE LET currentParam == IF c.pageParams # <<>> THEN c.pageParams[1]
                             ELSE c.initialPageParam
         IN  IF currentParam > c.initialPageParam THEN currentParam - 1 ELSE 0

\* A truncation that keeps the oldest pages of an overflowing append
KeepHead(s, maxPages) == SubSeq(s, 1, maxPages)

\* slice(-maxPages)
KeepTail(s, maxPages) == SubSeq(s, Len(s) - maxPages + 1, Len(s))

\* fetchPage after its await, the producer having succeeded
PageFetched(c, pageData, pageParam, direction) ==
    LET over(s) == c.maxPages > 0 /\ Len(s) > c.maxPages
        ps == IF direction = "next" THEN Append(c.pages, pageData)
              ELSE <<pageData>> \o c.pages
        qs == IF direction = "next" THEN Append(c.pageParams, pageParam)
              ELSE <<pageParam>> \o c.pageParams
        c1 == [c EXCEPT
                 !.pages = IF ~over(ps) THEN ps
                           ELSE IF direction = "next" THEN KeepTail(ps, c.maxPages)
                           ELSE SubSeq(ps, 1, c.maxPages),
                 !.pageParams = IF ~over(qs) THEN qs
                           ELSE IF direction = "next" THEN KeepTail(qs, c.maxPages)
                           ELSE SubSeq(qs, 1, c.maxPages)]
    IN  [c1 EXCEPT !.hasNextPage = getNextPageParam(c1, pageData) # 0,
                   !.hasPreviousPage = getPreviousPageParam(c1, c1.pages[1]) # 0,
                   !.error = Null, !.isSuccess = TRUE, !.isError = FALSE,
                   !.status = SUCCESS]

\* fetchPage after its await, the producer having failed
PageFailed(c, err) ==
    [c EXCEPT !.error = err,
              !.isError = IF c.pages = <<>> THEN TRUE ELSE @,
              !.status = IF c.pages = <<>> THEN ERROR ELSE @]

\* fetchPage up to its await: cache.fetch of the page key, on behalf of
\* the function "kind" of component o
StartPage(X, o, kind, pageParam, rest, all) ==
    LET k  == getCompositePageKey(pageParam)
        S1 == Fetch(X.S, k, "posts")
    IN  [S |-> Await(S1, o, k),
         c |-> [X.c EXCEPT !.tasks = Append(@,
                   [call |-> EntryOf(S1, k).promise, kind |-> kind,
                    param |-> pageParam, rest |-> rest, all |-> all])]]

\* The finally block of the function "kind"
Finally(c, kind) ==
    [c EXCEPT !.isFetching = FALSE,
              !.isLoading = IF kind \in {"initial", "refetch"} THEN FALSE ELSE @,
              !.isFetchingNextPage = IF kind = "next" THEN FALSE ELSE @,
              !.isFetchingPreviousPage = IF kind = "previous" THEN FALSE ELSE @]

\* One suspended function resumes with the page its call produced
Resume(X, o, t, pageData) ==
    LET c1 == PageFetched(X.c, pageData, t.param,
                          IF t.kind = "previous" THEN "previous" ELSE "next")
    IN  IF t.kind = "refetch" /\ t.rest # <<>>
        THEN StartPage([S |-> Invalidate(X.S, getCompositePageKey(t.rest[1])),
                        c |-> c1],
                       o, "refetch", t.rest[1], Tail(t.rest), t.all)
        ELSE [S |-> X.S, c |-> Finally(c1, t.kind)]

\* A refetchAll that goes on to the next parameter after a failure
AbortContinues(X, o, t, err) ==
    LET c1 == [PageFailed(X.c, err) EXCEPT !.onError = @ + 1]
    IN  IF t.kind = "refetch" /\ t.rest # <<>>
        THEN StartPage([S |-> X.S, c |-> c1],
                       o, "refetch", t.rest[1], Tail(t.rest), t.all)
        ELSE [S |-> X.S, c |-> Finally(c1, t.kind)]

\* One suspended function resumes with the error of its call: fetchPage
\* rethrows, the function emits onError and runs its finally block
Abort(X, o, t, err) ==
    [S |-> X.S,
     c |-> [Finally(PageFailed(X.c, err), t.kind) EXCEPT !.onError = @ + 1,
                                                         !.sinceReset = FALSE]]

\* The functions waiting for one call resume in the order they waited
RECURSIVE ResumeAll(_, _, _, _)
ResumeAll(X, o, ts, pageData) ==
    IF ts = <<>> THEN X
    ELSE ResumeAll(Resume(X, o, Head(ts), pageData), o, Tail(ts), pageData)

RECURSIVE AbortAll(_, _, _, _)
AbortAll(X, o, ts, err) ==
    IF ts = <<>> THEN X
    ELSE AbortAll(Abort(X, o, Head(ts), err), o, Tail(ts), err)

\* setup(): the props of the component and its refs before onMounted
NewPages(initialPageParam, maxPages, paths) ==
    [initialPageParam |-> initialPageParam, maxPages |-> maxPages,
     paths |-> paths, mounted |-> FALSE,
     unmounted |-> FALSE,     \* onBeforeUnmount has run: the instance is gone
     endpoint |-> TRUE,       \* props.content.endpoint is configured
     staleTime |-> 0, cacheTime |-> 1,
     pages |-> <<>>, pageParams |-> <<>>, error |-> Null,
     isLoading |-> FALSE, isFetching |-> FALSE,
     isFetchingNextPage |-> FALSE, isFetchingPreviousPage |-> FALSE,
     isSuccess |-> FALSE, isError |-> FALSE,
     hasNextPage |-> TRUE, hasPreviousPage |-> FALSE, status |-> IDLE,
     tasks |-> <<>>,
     onError |-> 0,           \* onError events emitted by the current step
     sinceReset |-> FALSE]    \* resetPages on a populated chain was the last
                              \* operation called, and no producer failed since

PageLimits == [objs |-> MaxPage, calls |-> PageCalls]

\* The store and the component as a handler of component o finds them
Entering(o) == [S |-> Store, c |-> [obs[o] EXCEPT !.onError = 0]]

\* The store and the component as a handler of component o leaves them
Leaving(X, o) ==
    /\ Len(X.c.tasks) <= MaxTasks
    /\ CommitIn(X.S, PageLimits)
    /\ obs' = [obs EXCEPT ![o] = X.c]
    /\ UNCHANGED now

\* initialFetch up to its await (enabled, queryKey configured)
InitialFetch(X, o) ==
    LET k  == getCompositePageKey(X.c.initialPageParam)
        S1 == Get(X.S, k, "posts")
        e  == EntryOf(S1, k)
    IN  IF ~X.c.endpoint THEN X
        ELSE IF /\ e.status = SUCCESS /\ ~isStale(e.fetchedAt, X.c.staleTime)
                /\ X.c.pages # <<>>
        THEN [S |-> S1, c |-> X.c]
        ELSE StartPage(
                 [S |-> S1,
                  c |-> [X.c EXCEPT
                           !.isLoading = (X.c.pages = <<>>),
                           !.isFetching = TRUE,
                           !.status = IF X.c.pages = <<>> THEN LOADING ELSE @,
                           !.pages = <<>>, !.pageParams = <<>>]],
                 o, "initial", X.c.initialPageParam, <<>>, <<>>)

\* onMounted
MountPages(o) ==
    /\ ~obs[o].mounted
    /\ LET X == Entering(o)
       IN  Leaving(InitialFetch([X EXCEPT !.c.mounted = TRUE], o), o)

\* fetchNextPage up to its await
FetchNextPage(o) ==
    /\ obs[o].mounted
    /\ LET X == Entering(o)
           c == X.c
           nextParam == getNextPageParam(c, IF c.pages = <<>> THEN Undefined
                                            ELSE c.pages[Len(c.pages)])
       IN  IF ~c.hasNextPage \/ c.isFetchingNextPage THEN Leaving(X, o)
           ELSE IF nextParam = 0
                THEN Leaving([X EXCEPT !.c.hasNextPage = FALSE,
                                       !.c.sinceReset = FALSE], o)
                ELSE /\ nextParam <= MaxPage
                     /\ Leaving(StartPage(
                            [X EXCEPT !.c.isFetchingNextPage = TRUE,
                                      !.c.isFetching = TRUE,
                                      !.c.sinceReset = FALSE],
                            o, "next", nextParam, <<>>, <<>>), o)

\* fetchPreviousPage up to its await
FetchPreviousPage(o) ==
    /\ obs[o].mounted
    /\ LET X == Entering(o)
           c == X.c
           prevParam == getPreviousPageParam(c, IF c.pages = <<>> THEN Undefined
                                                ELSE c.pages[1])
       IN  IF ~c.hasPreviousPage \/ c.isFetchingPreviousPage THEN Leaving(X, o)
           ELSE IF prevParam = 0
                THEN Leaving([X EXCEPT !.c.hasPreviousPage = FALSE,
                                       !.c.sinceReset = FALSE], o)
                ELSE Leaving(StartPage(
                         [X EXCEPT !.c.isFetchingPreviousPage = TRUE,
                                   !.c.isFetching = TRUE,
                                   !.c.sinceReset = FALSE],
                         o, "previous", prevParam, <<>>, <<>>), o)

\* refetchAll up to its first await
RefetchAllFrom(X, o) ==
    IF X.c.isFetching THEN X
    ELSE LET all == X.c.pageParams
             c1  == [X.c EXCEPT !.pages = <<>>, !.pageParams = <<>>,
                                !.isFetching = TRUE, !.isLoading = TRUE,
                                !.sinceReset = FALSE]
         IN  IF all = <<>> THEN [S |-> X.S, c |-> Finally(c1, "refetch")]
             ELSE StartPage([S |-> Invalidate(X.S, getCompositePageKey(all[1])),
                             c |-> c1],
                            o, "refetch", all[1], Tail(all), all)

RefetchAll(o) ==
    /\ obs[o].mounted
    /\ Leaving(RefetchAllFrom(Entering(o), o), o)

\* resetPages, including the initialFetch it ends with
ResetPages(o) ==
    /\ obs[o].mounted
    /\ LET X  == Entering(o)
           ks == {getCompositePageKey(X.c.pageParams[i])
                      : i \in 1..Len(X.c.pageParams)}
       IN  Leaving(InitialFetch(
               [S |-> InvalidateEach(X.S, ks),
                c |-> [X.c EXCEPT !.pages = <<>>, !.pageParams = <<>>,
                                  !.hasNextPage = TRUE,
                                  !.hasPreviousPage = FALSE,
                                  !.isSuccess = FALSE, !.status = IDLE,
                                  !.sinceReset = (X.c.pageParams # <<>>)]],
               o), o)

\* invalidate: the whole family, then refetchAll
InvalidatePages(o) ==
    /\ obs[o].mounted
    /\ LET X == Entering(o)
       IN  Leaving(RefetchAllFrom([X EXCEPT !.S = InvalidateByKey(X.S, "posts")],
                                  o), o)

\* The producer of call p answers: the store settles, then the functions
\* of component o waiting for the call resume. Without an endpoint the
\* producer throws before it sends anything.
PageSettleOk(o, p) ==
    /\ calls[p].pending
    /\ obs[o].endpoint
    /\ LET X  == Entering(o)
           v  == Response(ParamOf(calls[p].key))
           ts == SelectSeq(X.c.tasks, LAMBDA t : t.call = p)
           c0 == [X.c EXCEPT !.tasks = SelectSeq(@, LAMBDA t : t.call # p)]
       IN  Leaving(ResumeAll([S |-> Resolve(X.S, p, v), c |-> c0], o, ts, v), o)

\* The producer of call p fails
PageSettleErr(o, p, e) ==
    /\ calls[p].pending
    /\ LET X  == Entering(o)
           ts == SelectSeq(X.c.tasks, LAMBDA t : t.call = p)
           c0 == [X.c EXCEPT !.tasks = SelectSeq(@, LAMBDA t : t.call # p)]
       IN  Leaving(AbortAll([S |-> Reject(X.S, p, e), c |-> c0], o, ts, e), o)

\* The configurations of the component: counting from page 1 within a
\* window of 3 pages, or following the pointers of the responses from page 2
PageConfigs ==
    {[initialPageParam |-> 1, maxPages |-> 3, paths |-> FALSE],
     [initialPageParam |-> 2, maxPages |-> 0, paths |-> TRUE]}

InitPages ==
    /\ cache = [k \in PageKeys |-> 0]
    /\ heap = <<>>
    /\ registry = <<>>
    /\ timers = {}
    /\ calls = <<>>
    /\ \E g \in PageConfigs :
          obs = [o \in Obs |-> NewPages(g.initialPageParam, g.maxPages, g.paths)]
    /\ disposer = [o \in Obs |-> 0]
    /\ lastSnap = [o \in Obs |-> NoSnap]
    /\ delivered = [o \in Obs |-> 0]
    /\ awaiting = [c \in Callers |-> {}]
    /\ now = 1

NextPages ==
    \/ MountPages("o1")
    \/ FetchNextPage("o1")
    \/ FetchPreviousPage("o1")
    \/ RefetchAll("o1")
    \/ ResetPages("o1")
    \/ InvalidatePages("o1")
    \/ \E p \in 1..Len(calls) : PageSettleOk("o1", p)
    \/ \E p \in 1..Len(calls) : \E e \in Errors : PageSettleErr("o1", p, e)

SpecPages == InitPages /\ [][NextPages]_vars

\* The component placed on a page before its endpoint is bound: queryKey
\* "posts", no endpoint, any initial page, with or without a window
InitUnconfigured ==
    /\ cache = [k \in PageKeys |-> 0]
    /\ heap = <<>>
    /\ registry = <<>>
    /\ timers = {}
    /\ calls = <<>>
    /\ \E n \in 1..3 : \E m \in {0, 3} : \E paths \in BOOLEAN :
          obs = [o \in Obs |-> [NewPages(n, m, paths) EXCEPT !.endpoint = FALSE]]
    /\ disposer = [o \in Obs |-> 0]
    /\ lastSnap = [o \in Obs |-> NoSnap]
    /\ delivered = [o \in Obs |-> 0]
    /\ awaiting = [c \in Callers |-> {}]
    /\ now = 1

\* Every producer the component builds throws "No endpoint URL configured"
NextUnconfigured ==
    \/ MountPages("o1")
    \/ FetchNextPage("o1")
    \/ FetchPreviousPage("o1")
    \/ RefetchAll("o1")
    \/ ResetPages("o1")
    \/ InvalidatePages("o1")
    \/ \E p \in 1..Len(calls) : \E e \in Errors : PageSettleErr("o1", p, e)

SpecUnconfigured == InitUnconfigured /\ [][NextUnconfigured]_vars

\* onBeforeUnmount's loop: scheduleGC for the key of every resident
\* parameter, under the base key
RECURSIVE ScheduleEach(_, _, _)
ScheduleEach(S, ps, cacheTime) ==
    IF ps = <<>> THEN S
    ELSE ScheduleEach(ScheduleGC(S, getCompositePageKey(Head(ps)), cacheTime,
                                 "posts"),
                      Tail(ps), cacheTime)

\* onBeforeUnmount
UnmountPages(o) ==
    /\ obs[o].mounted
    /\ LET X == Entering(o)
       IN  Leaving([S |-> ScheduleEach(X.S, X.c.pageParams, X.c.cacheTime),
                    c |-> [X.c EXCEPT !.mounted = FALSE, !.unmounted = TRUE]], o)

\* The producer of call p answers: the store settles, then the functions
\* waiting for the call resume in every component, those of an unmounted
\* instance included (none of them is a refetchAll, so none touches the
\* store again and the order between components does not matter)
PageSettleOkAll(p) ==
    /\ calls[p].pending
    /\ LET v  == Response(ParamOf(calls[p].key))
           S1 == Resolve(Store, p, v)
           after(o) ==
               ResumeAll([S |-> S1,
                          c |-> [obs[o] EXCEPT
                                   !.onError = 0,
                                   !.tasks = SelectSeq(@, LAMBDA t : t.call # p)]],
                         o, SelectSeq(obs[o].tasks, LAMBDA t : t.call = p), v).c
       IN  /\ CommitIn(S1, PageLimits)
           /\ obs' = [o \in Obs |-> after(o)]
           /\ UNCHANGED now

\* An eviction timer armed by an unmounted component fires
PageGCFire(t) ==
    /\ now >= t.due
    /\ CommitIn(GCCallback(Store, t), PageLimits)
    /\ UNCHANGED <<obs, now>>

\* The clock advances
PageTick ==
    /\ now < MaxTime
    /\ now' = now + 1
    /\ CommitIn(Store, PageLimits)
    /\ UNCHANGED obs

\* Data that stays fresh for longer than any behaviour lasts
LongStaleTime == MaxTime + 3

\* Two instances of the component on the same queryKey, counting from
\* page 1 within a window of 2 pages, cacheTime 1
InitLifecycle ==
    /\ cache = [k \in PageKeys |-> 0]
    /\ heap = <<>>
    /\ registry = <<>>
    /\ timers = {}
    /\ calls = <<>>
    /\ obs = [o \in Obs |->
                 [NewPages(1, 2, FALSE) EXCEPT !.staleTime = LongStaleTime]]
    /\ disposer = [o \in Obs |-> 0]
    /\ lastSnap = [o \in Obs |-> NoSnap]
    /\ delivered = [o \in Obs |-> 0]
    /\ awaiting = [c \in Callers |-> {}]
    /\ now = 1

\* Each instance mounts once, pages forward, and unmounts
NextLifecycle ==
    \/ \E o \in Obs : ~obs[o].unmounted /\ MountPages(o)
    \/ \E o \in Obs : FetchNextPage(o)
    \/ \E o \in Obs : UnmountPages(o)
    \/ \E p \in 1..Len(calls) : PageSettleOkAll(p)
    \/ \E t \in timers : PageGCFire(t)
    \/ PageTick

SpecLifecycle == InitLifecycle /\ [][NextLifecycle]_vars

\* ------------------------------------------------------------ properties
\* The families a composite key is registered under
FamiliesOf(k) == {b \in DOMAIN registry : k \in registry[b]}

\* The producer calls still outstanding on entry object id
Outstanding(id) ==
    {p \in 1..Len(calls) : calls[p].pending /\ calls[p].obj = id}

\* Observer o received a snapshot in the step that led here
Received(o) == lastSnap[o] # NoSnap

\* C1: dedup. For every key, while its entry is resident, all the fetch calls
\* issued before the outstanding producer settles (direct ones and those of
\* observers mounting on the key) cause one producer invocation: the entry
\* has at most one outstanding producer, the one its in-flight marker names;
\* every caller awaiting a fetch of that entry awaits that same producer, so
\* all get the same value or the same failure; and the observers subscribed
\* to the entry are shown the same status and the same data, those of the
\* entry (Success and the produced value once it succeeds).
C1_Dedup ==
    \A k \in Keys :
        cache[k] # 0 =>
            LET id == cache[k]
            IN  /\ Outstanding(id) =
                       (IF heap[id].promise = 0 THEN {} ELSE {heap[id].promise})
                /\ \A c \in Callers : \A q \in awaiting[c] :
                       calls[q].obj = id => q = heap[id].promise
                /\ \A o \in heap[id].subscribers :
                       Received(o) => /\ lastSnap[o].status = heap[id].status
                                      /\ lastSnap[o].data = heap[id].data

\* Both observers and a direct caller await the one producer of the key
C1_Witness ==
    /\ Len(calls) = 1
    /\ calls[1].pending
    /\ \A c \in Callers : awaiting[c] = {1}
    /\ obs["o1"].mounted /\ obs["o2"].mounted
    /\ obs["o2"].staleTime # Infinity
    /\ cache[obs["o1"].compositeKey] = calls[1].obj
    /\ heap[calls[1].obj].status = LOADING
    /\ heap[calls[1].obj].subscribers = Obs

C3_StaleDataRetained ==
    [][\A p \in 1..Len(calls) : \A e \in Errors :
          (/\ SettleErr(p, e, Limits)
           /\ cache[calls[p].key] = calls[p].obj
           /\ heap[calls[p].obj].data # Undefined) =>
              \A o \in heap[calls[p].obj].subscribers :
                  /\ lastSnap'[o].data = heap[calls[p].obj].data
                  /\ lastSnap'[o].error # Null
                  /\ lastSnap'[o].isError]_vars

\* C4: fetch sets status Loading only on an entry that is Idle, and an entry
\* that has reached Success never shows Loading or Idle again while it is
\* resident, whatever fetches, refetches, invalidations and producer
\* completions follow.
C4_LoadingOnlyFromIdle ==
    [][\A id \in 1..Len(heap) :
          /\ (heap'[id].status = LOADING /\ heap[id].status # LOADING)
                 => heap[id].status = IDLE
          /\ heap[id].status = SUCCESS
                 => heap'[id].status \notin {LOADING, IDLE}]_vars

\* A background refresh in flight on an entry that stays Success
C4_Witness ==
    \E k \in Keys :
        /\ cache[k] # 0
        /\ heap[cache[k]].status = SUCCESS
        /\ heap[cache[k]].promise # 0
        /\ \E o \in heap[cache[k]].subscribers :
               Received(o) /\ lastSnap[o].status = SUCCESS

\* C5: when a producer succeeds with value v, the entry afterwards has
\* data = v, no error, status Success, fetchedAt = the current time and no
\* in-flight marker; nothing else of the entry changes.
C5_Success ==
    [][\A p \in 1..Len(calls) : \A v \in Values :
          (SettleOk(p, v, Limits) /\ heap'[calls[p].obj].status # "collected") =>
              heap'[calls[p].obj] =
                  [heap[calls[p].obj] EXCEPT !.data = v, !.error = Null,
                                             !.status = SUCCESS,
                                             !.fetchedAt = now,
                                             !.promise = 0]]_vars

\* A success that followed a failure: fresh data, the error gone
C5_Witness ==
    \E k \in Keys :
        /\ cache[k] # 0
        /\ Len(calls) = 2
        /\ \A p \in 1..Len(calls) : ~calls[p].pending
        /\ heap[cache[k]].status = SUCCESS
        /\ heap[cache[k]].data = "v2"
        /\ heap[cache[k]].error = Null
        /\ heap[cache[k]].fetchedAt = now
        /\ now = MaxTime
        /\ heap[cache[k]].promise = 0

\* C6: when the producer of a fetch settles, the in-flight marker of its
\* entry is cleared, and each callback subscribed to the key of that entry
\* is invoked exactly once for the completion (no other callback is), with
\* an entry whose in-flight marker is already absent.
C6_SettleNotifiesOnce ==
    [][\A p \in 1..Len(calls) :
          (/\ calls[p].pending
           /\ ~calls'[p].pending
           /\ cache[calls[p].key] = calls[p].obj) =>
              LET id == calls[p].obj
              IN  /\ heap'[id].promise = 0
                  /\ \A o \in Obs :
                        IF o \in heap[id].subscribers
                        THEN /\ delivered'[o] = 1
                             /\ ~lastSnap'[o].isFetching
                             /\ lastSnap'[o].data = heap'[id].data
                             /\ lastSnap'[o].error = heap'[id].error
                        ELSE delivered'[o] = 0]_vars

\* A completion just delivered to both subscribers of the key, once each
C6_Witness ==
    \E k \in Keys :
        /\ cache[k] # 0
        /\ heap[cache[k]].subscribers = Obs
        /\ heap[cache[k]].promise = 0
        /\ heap[cache[k]].fetchedAt # 0
        /\ \A o \in Obs : /\ delivered[o] = 1
                          /\ ~lastSnap[o].isFetching
                          /\ lastSnap[o].fetchedAt = heap[cache[k]].fetchedAt

\* C7: while a fetch is in flight for a key (a background refresh of data
\* already present included), the most recent snapshot delivered to the
\* observers of that key has isFetching = TRUE.
C7_FetchingWhileInFlight ==
    \A k \in Keys :
        (cache[k] # 0 /\ heap[cache[k]].promise # 0) =>
            \A o \in heap[cache[k]].subscribers :
                Received(o) => lastSnap[o].isFetching

\* C8: invalidate(key) on a resident entry sets fetchedAt to "never" and
\* notifies each subscriber of the key once, and touches nothing else: the
\* entry's data, error, status and in-flight fetch, the other entries, the
\* family index, the timers and the producer calls are as before; on a key
\* that is not resident it does nothing at all.
C8_InvalidateFrame ==
    [][\A k \in PostsKeys :
          DirectInvalidate(k, Limits) =>
              /\ cache' = cache
              /\ calls' = calls
              /\ registry' = registry
              /\ timers' = timers
              /\ awaiting' = awaiting
              /\ IF cache[k] # 0
                 THEN /\ heap' = [heap EXCEPT ![cache[k]].fetchedAt = 0]
                      /\ \A o \in Obs :
                            delivered'[o] =
                                (IF o \in heap[cache[k]].subscribers THEN 1 ELSE 0)
                 ELSE /\ heap' = heap
                      /\ \A o \in Obs : delivered'[o] = 0]_vars

\* An invalidation just delivered: a subscribed entry, its fetch still in
\* flight and its data kept, marked never-fetched
C8_Witness ==
    \E k \in Keys :
        /\ cache[k] # 0
        /\ heap[cache[k]].fetchedAt = 0
        /\ heap[cache[k]].data # Undefined
        /\ heap[cache[k]].status = SUCCESS
        /\ heap[cache[k]].promise # 0
        /\ heap[cache[k]].subscribers # {}
        /\ \A o \in heap[cache[k]].subscribers :
               /\ delivered[o] = 1
               /\ lastSnap[o].fetchedAt = 0
               /\ lastSnap[o].isFetching

\* C9: invalidateByKey(baseKey) sets fetchedAt to "never" on every resident
\* entry of that family (the bare key and each of its parameter variations)
\* and leaves the entries of every other family, and which keys are
\* resident, as they were.
C9_InvalidateByKeyFamily ==
    [][\A b \in BaseKeys :
          DirectInvalidateByKey(b, FamilyLimits) =>
              /\ cache' = cache
              /\ \A k \in Keys :
                    cache[k] # 0 =>
                        heap'[cache[k]] =
                            (IF FamilyOf(k) = b
                             THEN [heap[cache[k]] EXCEPT !.fetchedAt = 0]
                             ELSE heap[cache[k]])]_vars

\* Both variations of one family invalidated, the other family's entry,
\* fetched as well, still carrying its fetch time
C9_Witness ==
    /\ \A k \in Keys : cache[k] # 0 /\ heap[cache[k]].data # Undefined
    /\ \A k \in Keys :
          (heap[cache[k]].fetchedAt = 0) <=> (FamilyOf(k) = "posts")

\* C10: an invalidated entry is stale. After invalidate(key) or
\* invalidateByKey(family), until the next successful fetch, every snapshot
\* given to an observer has isStale = TRUE, whatever its staleTime, the
\* infinite one included.
C10_InvalidatedIsStale ==
    \A o \in Obs :
        (/\ Received(o)
         /\ lastSnap[o].data # Undefined
         /\ lastSnap[o].fetchedAt = 0) => lastSnap[o].isStale

\* C11: staleness boundary. For a finite staleTime, isStale is TRUE exactly
\* when the entry was never fetched (fetchedAt = 0) or now - fetchedAt
\* exceeds staleTime; with staleTime = 1000 and a success at instant T (the
\* model's T is 1), isStale is FALSE at T + 999 and TRUE at T + 1001.
C11_StalenessBoundary ==
    \A o \in Obs :
        Received(o) =>
            /\ lastSnap[o].isStale <=>
                   (\/ lastSnap[o].fetchedAt = 0
                    \/ now - lastSnap[o].fetchedAt > obs[o].staleTime)
            /\ (obs[o].staleTime = 1000 /\ lastSnap[o].fetchedAt = 1) =>
                   /\ now = 1000 => ~lastSnap[o].isStale
                   /\ now = 1002 => lastSnap[o].isStale

\* The entry fetched at T read exactly staleTime later: still fresh
C11_Witness ==
    /\ Received("o1")
    /\ obs["o1"].staleTime = 1000
    /\ lastSnap["o1"].fetchedAt = 1
    /\ now = 1001
    /\ ~lastSnap["o1"].isStale

\* Entry object id has a pending eviction timer
Armed(id) == \E t \in timers : t.obj = id

\* Entry object id has a pending eviction timer whose delay has elapsed
Due(id) == \E t \in timers : t.obj = id /\ now >= t.due

\* Entry object id is resident under some key
Live(id) == \E k \in Keys : cache[k] = id

\* C15: in every reachable state of the store an entry with at least one
\* subscriber has no pending eviction timer, and each entry has at most one
\* pending eviction timer (scheduleGC on a subscribed entry is a no-op, and
\* re-arming replaces the previous timer).
C15_TimerInvariant ==
    /\ \A t \in timers : heap[t.obj].subscribers = {}
    /\ \A t1, t2 \in timers : t1.obj = t2.obj => t1 = t2

\* An unsubscribed entry with its one timer beside a subscribed entry
\* with none
C15_Witness ==
    \E k1, k2 \in Keys :
        /\ cache[k1] # 0 /\ cache[k2] # 0
        /\ heap[cache[k1]].subscribers # {}
        /\ ~Armed(cache[k1])
        /\ heap[cache[k2]].subscribers = {}
        /\ Cardinality({t \in timers : t.obj = cache[k2]}) = 1

\* C13: eviction. If an entry has no subscribers and scheduleGC(key, ttl)
\* is called with a finite ttl, and no subscribe(key) happens before the
\* timer fires, then once ttl has elapsed the entry is no longer resident:
\* the timer, when it fires, deletes the entry; until then it stays pending
\* unless a subscribe, a removal or a later scheduleGC call supersedes it;
\* and a timer whose delay has elapsed does not stay pending for ever.
C13_Eviction ==
    /\ [][\A t \in timers :
             /\ GCFire(t) => cache'[t.key] = 0
             /\ (t \notin timers' /\ ~GCFire(t)) =>
                    \/ cache'[t.key] # t.obj
                    \/ heap'[t.obj].subscribers # {}
                    \/ \E o \in Obs : Unmount(o)
                    \/ \E k \in PostsKeys : \E ttl \in {0, 1} :
                           DirectScheduleGC(k, ttl, Limits)]_vars
    /\ \A id \in 1..MaxObjs :
          (id <= Len(heap) /\ Live(id) /\ Due(id))
              ~> (id <= Len(heap) /\ (~Live(id) \/ ~Due(id)))

\* An unsubscribed resident entry whose eviction delay has just elapsed
C13_Witness ==
    \E t \in timers :
        /\ now >= t.due
        /\ now > 1
        /\ cache[t.key] = t.obj
        /\ heap[t.obj].subscribers = {}
        /\ heap[t.obj].data # Undefined

\* C14: a new observer always wins against eviction. A subscribe(key) that
\* occurs after scheduleGC(key, ttl) and before its timer fires cancels the
\* timer, so the entry is still resident after ttl has elapsed; and no
\* entry with at least one subscriber is ever removed by an eviction timer.
C14_SubscribeWins ==
    [][/\ \A o \in Obs :
             Mount(o) =>
                 /\ cache'[obs[o].compositeKey] # 0
                 /\ \A t \in timers' : t.obj # cache'[obs[o].compositeKey]
       /\ \A t \in timers :
             GCFire(t) =>
                 \A k \in Keys :
                     (cache[k] # 0 /\ heap[cache[k]].subscribers # {})
                         => cache'[k] = cache[k]]_vars

\* At the last instant the one entry ever created is still resident,
\* subscribed by the second observer alone, whose mount has just started
\* call 2; the first observer is unmounted and no timer is left
C14_Witness ==
    /\ now = MaxTime
    /\ Len(heap) = 1
    /\ cache[obs["o2"].compositeKey] = 1
    /\ heap[1].subscribers = {"o2"}
    /\ timers = {}
    /\ ~obs["o1"].mounted
    /\ Len(calls) = 2 /\ ~calls[1].pending /\ calls[2].pending
    /\ awaiting["o2"] = {2} /\ awaiting[Ext] = {}
    /\ delivered["o2"] = 1

\* C12: with staleTime = 0 data is always stale. At every time at or after
\* a successful fetch completes, the same clock tick included, a snapshot
\* given to an observer with staleTime 0 has isStale = TRUE, and a mount or
\* a focus event of such an enabled observer starts a refetch.
C12_ZeroAlwaysStale ==
    [][\A o \in Obs :
          obs[o].staleTime = 0 =>
              /\ (lastSnap'[o] # NoSnap /\ lastSnap'[o].status = SUCCESS)
                     => lastSnap'[o].isStale
              /\ (/\ obs[o].enabled
                  /\ Mount(o) \/ Focus(o)
                  /\ cache[obs[o].compositeKey] # 0
                  /\ heap[cache[obs[o].compositeKey]].status = SUCCESS)
                     => awaiting'[o] # {}]_vars

\* C16: registry consistency. In every reachable state every variation key
\* listed in the family registry is resident in the store and no family
\* maps to an empty set: every removal of an entry (remove, removeByKey, a
\* firing eviction timer, those scheduled by unmount and by updateOptions
\* after a queryKey change included) also removes its registry record.
C16_RegistryConsistent ==
    \A b \in DOMAIN registry :
        /\ registry[b] # {}
        /\ \A k \in registry[b] : cache[k] # 0

\* C18: canonicalization has no collisions. For all structurally distinct
\* key descriptors over text, ordered lists and mappings (a text against a
\* list or a mapping included) the canonical keys differ, so distinct
\* (queryKey, params) pairs never share a variation key.
C18_NoCollisions ==
    \A o1, o2 \in Obs :
        /\ ~SameKey(obs[o1].queryKey, obs[o2].queryKey)
               => obs[o1].baseKey # obs[o2].baseKey
        /\ ~(/\ SameKey(obs[o1].queryKey, obs[o2].queryKey)
             /\ SameKey(obs[o1].params, obs[o2].params))
               => obs[o1].compositeKey # obs[o2].compositeKey

\* C19: hashKey is deterministic, insensitive to the insertion order of the
\* members of a mapping at every nesting level, and sensitive to the order
\* of the elements of a list: key({a:1,b:2}) = key({b:2,a:1}) and
\* key([1,2]) # key([2,1]).
C19_OrderOfMembers ==
    /\ \A o1, o2 \in Obs :
          /\ SameKey(obs[o1].queryKey, obs[o2].queryKey)
                 => obs[o1].baseKey = obs[o2].baseKey
          /\ (/\ obs[o1].queryKey.t = "list" /\ obs[o2].queryKey.t = "list"
              /\ ~SameKey(obs[o1].queryKey, obs[o2].queryKey))
                 => obs[o1].baseKey # obs[o2].baseKey
    /\ \A o \in Obs : obs[o].baseKey = hashKey(obs[o].queryKey)
    /\ hashKey(MapKey(<<Member("a", One), Member("b", Two)>>)) = "{\"a\":1,\"b\":2}"
    /\ hashKey(ListKey(<<One, Two>>)) = "[1,2]"
    /\ hashKey(ListKey(<<Two, One>>)) = "[2,1]"

\* Two observers whose mappings nest the same members in different
\* insertion order, on one key
C19_Witness ==
    /\ obs["o1"].queryKey # obs["o2"].queryKey
    /\ obs["o1"].queryKey.t = "map"
    /\ SameKey(obs["o1"].queryKey, obs["o2"].queryKey)
    /\ obs["o1"].baseKey = "{\"id\":{\"a\":1,\"b\":2}}"
    /\ obs["o1"].baseKey = obs["o2"].baseKey

\* C17: in every reachable state every resident variation key created
\* through an observer is registered under exactly one family, the
\* hashKey of the queryKey of the observer that uses it, never under a
\* second one.
C17_OneFamily ==
    \A k \in Keys :
        cache[k] # 0 =>
            /\ Cardinality(FamiliesOf(k)) = 1
            /\ \A o \in Obs :
                   (obs[o].mounted /\ obs[o].compositeKey = k)
                       => FamiliesOf(k) = {obs[o].baseKey}


\* C20: mount() of an enabled observer starts a fetch if and only if the
\* entry at its key is Idle (a key not yet resident gets an Idle entry) or
\* stale for the observer's staleTime: the observer then awaits the call in
\* flight on the entry. When the entry is non-Idle and fresh, mount invokes
\* no producer, awaits nothing and emits one snapshot, that of the entry.
C20_MountEvaluation ==
    [][\A o \in Obs :
          (Mount(o) /\ obs[o].enabled) =>
              LET k == obs[o].compositeKey
                  e == IF cache[k] = 0 THEN NewEntry ELSE heap[cache[k]]
              IN  IF e.status = IDLE \/ isStale(e.fetchedAt, obs[o].staleTime)
                  THEN /\ cache'[k] # 0
                       /\ heap'[cache'[k]].promise # 0
                       /\ heap'[cache'[k]].promise \in awaiting'[o]
                  ELSE /\ calls' = calls
                       /\ awaiting' = awaiting
                       /\ delivered'[o] = 1
                       /\ lastSnap'[o] = BuildState(e, o)]_vars

\* Observer o2 has just mounted on fresh successful data next to the
\* subscribed o1: it alone received a snapshot, and awaits no call
C20_Witness ==
    /\ obs["o1"].mounted /\ obs["o2"].mounted /\ obs["o2"].enabled
    /\ delivered["o1"] = 0 /\ delivered["o2"] = 1
    /\ lastSnap["o2"].status = SUCCESS
    /\ ~lastSnap["o2"].isStale
    /\ awaiting["o2"] = {}
    /\ calls # <<>>
    /\ \A p \in 1..Len(calls) : ~calls[p].pending

\* C21: after updateOptions changes the computed key of the mounted o1, o1
\* is subscribed to the entry of the new key and to no other entry; the old
\* key has a pending eviction timer iff its entry has no subscriber left
\* and cacheTime is finite; and o1 awaits a fetch of the new key iff it is
\* enabled and the new entry is Idle or stale, no call being made otherwise.
C21_KeyChange ==
    [][\A patch \in Patches :
          LET old  == obs["o1"].compositeKey
              k    == obs'["o1"].compositeKey
              e    == IF cache[k] = 0 THEN NewEntry ELSE heap[cache[k]]
          IN  (UpdateOptions("o1", patch) /\ obs["o1"].mounted /\ k # old) =>
                  /\ cache'[k] # 0
                  /\ \A id \in 1..Len(heap') :
                         (heap'[id] # Collected /\ "o1" \in heap'[id].subscribers)
                             <=> id = cache'[k]
                  /\ cache'[old] # 0
                  /\ (\E t \in timers' : t.handle /\ t.key = old /\ t.obj = cache'[old])
                         <=> (/\ heap'[cache'[old]].subscribers = {}
                              /\ obs'["o1"].cacheTime # Infinity)
                  /\ IF obs'["o1"].enabled
                        /\ (e.status = IDLE
                              \/ isStale(e.fetchedAt, obs'["o1"].staleTime))
                     THEN /\ heap'[cache'[k]].promise # 0
                          /\ heap'[cache'[k]].promise \in awaiting'["o1"]
                     ELSE /\ calls' = calls
                          /\ awaiting' = awaiting]_vars

\* o1 has left "posts" for "users" and awaits the fetch it started there,
\* while o2 is still subscribed to "posts", which has no timer
C21_Witness ==
    /\ obs["o1"].mounted /\ obs["o1"].compositeKey = "users"
    /\ cache["users"] # 0 /\ cache["posts"] # 0
    /\ heap[cache["users"]].subscribers = {"o1"}
    /\ heap[cache["users"]].promise \in awaiting["o1"]
    /\ heap[cache["posts"]].subscribers = {"o2"}
    /\ \A t \in timers : t.key # "posts"

\* The entry objects whose subscriber set holds the callback of observer o
SubscriptionsOf(o) ==
    {id \in 1..Len(heap) : heap[id] # Collected /\ o \in heap[id].subscribers}

\* C22: no duplicate or leaked timers. After any sequence of mount, unmount
\* and updateOptions an observer has exactly one live poll timer, the one
\* whose handle it holds, when it is mounted with refetchInterval > 0 and
\* none otherwise; and it is subscribed to exactly one entry, the resident
\* entry of its key, when mounted and to none when unmounted.
C22_NoLeakedTimers ==
    \A o \in Obs :
        /\ obs[o].intervals
               = (IF obs[o].mounted /\ obs[o].refetchInterval > 0 THEN 1 ELSE 0)
        /\ obs[o].refetchIntervalId <=> obs[o].intervals = 1
        /\ SubscriptionsOf(o)
               = (IF obs[o].mounted THEN {cache[obs[o].compositeKey]} ELSE {})

\* The mounted o1 polls with period 2 on the key "users": both its period
\* and its key were changed after it was constructed
C22_Witness ==
    /\ obs["o1"].mounted
    /\ obs["o1"].refetchInterval = 2
    /\ obs["o1"].intervals = 1
    /\ obs["o1"].compositeKey = "users"
    /\ SubscriptionsOf("o1") = {cache["users"]}

Waiting(p) == SelectSeq(obs["o1"].tasks, LAMBDA t : t.call = p)

\* C24: page chain lockstep. In every reachable state pages and pageParams
\* have the same length and pages[i] is the data fetched for pageParams[i],
\* under any interleaving of fetchNextPage, fetchPreviousPage, refetchAll,
\* resetPages, invalidate and producer completions.
C24_Lockstep ==
    /\ Len(obs["o1"].pages) = Len(obs["o1"].pageParams)
    /\ \A i \in 1..Len(obs["o1"].pageParams) :
           obs["o1"].pages[i] = Response(obs["o1"].pageParams[i])

\* A chain of three pages built in both directions, a fetch still pending
C24_Witness ==
    /\ obs["o1"].pageParams = <<1, 2, 3>>
    /\ obs["o1"].pages = <<"page1", "page2", "page3">>
    /\ obs["o1"].initialPageParam = 2
    /\ obs["o1"].tasks # <<>>

\* C25: window bound. With maxPages > 0 the chain never holds more than
\* maxPages pages, and the page just fetched is retained: after an append
\* it is the last page, after a prepend the first. An overflowing append
\* drops from the front (1,2,3 and then 4 leaves 2,3,4), an overflowing
\* prepend from the back (2,3,4 and then 1 leaves 1,2,3).
C25_WindowBound ==
    [][\A p \in 1..Len(calls) :
          (PageSettleOk("o1", p) /\ obs["o1"].maxPages > 0 /\ Waiting(p) # <<>>) =>
              LET t == Waiting(p)[Len(Waiting(p))]
                  q == obs'["o1"].pageParams
              IN  /\ Len(q) <= obs["o1"].maxPages
                  /\ Len(obs'["o1"].pages) <= obs["o1"].maxPages
                  /\ IF t.kind = "previous"
                     THEN q[1] = t.param /\ obs'["o1"].pages[1] = Response(t.param)
                     ELSE /\ q[Len(q)] = t.param
                          /\ obs'["o1"].pages[Len(q)] = Response(t.param)
                  /\ (obs["o1"].pageParams = <<1, 2, 3>> /\ Len(Waiting(p)) = 1
                        /\ t.kind = "next" /\ t.param = 4) => q = <<2, 3, 4>>
                  /\ (obs["o1"].pageParams = <<2, 3, 4>> /\ Len(Waiting(p)) = 1
                        /\ t.kind = "previous" /\ t.param = 1) => q = <<1, 2, 3>>]_vars

\* Page 4 was fetched and dropped again: the window of three pages slid
\* forward to 2,3,4 and back to 1,2,3
C25_Witness ==
    /\ obs["o1"].maxPages = 3
    /\ obs["o1"].pageParams = <<1, 2, 3>>
    /\ cache[getCompositePageKey(4)] # 0
    /\ heap[cache[getCompositePageKey(4)]].data = "page4"
    /\ Len(calls) = 5

\* C26: pagination stop. With nextPagePath configured, when the value at
\* that path in an appended page is null or missing, hasNextPage becomes
\* false (and true when it is present); a fetchNextPage() called while
\* hasNextPage is false invokes no producer and leaves pages and pageParams
\* as they are.
C26_PaginationStop ==
    [][/\ \A p \in 1..Len(calls) :
             (/\ PageSettleOk("o1", p) /\ obs["o1"].paths /\ Waiting(p) # <<>>
              /\ Waiting(p)[Len(Waiting(p))].kind # "previous") =>
                 (obs'["o1"].hasNextPage
                    <=> NextPointer(Response(ParamOf(calls[p].key))) # 0)
       /\ (FetchNextPage("o1") /\ ~obs["o1"].hasNextPage) =>
              /\ calls' = calls
              /\ obs'["o1"].tasks = obs["o1"].tasks
              /\ obs'["o1"].pages = obs["o1"].pages
              /\ obs'["o1"].pageParams = obs["o1"].pageParams]_vars

\* The chain ends with page 3, whose next pointer is null: no next page,
\* nothing in flight
C26_Witness ==
    /\ obs["o1"].paths
    /\ obs["o1"].pageParams = <<2, 3>>
    /\ ~obs["o1"].hasNextPage
    /\ obs["o1"].tasks = <<>>

\* C27: once hasNextPage (respectively hasPreviousPage) is false because
\* the value at the extraction path was absent, it stays false until
\* resetPages() is called, whatever else happens in between. Stated for
\* the flag of a chain whose edge page carries no pointer.
C27_StaysFalse ==
    [][(obs["o1"].paths /\ ~ResetPages("o1")) =>
          /\ (/\ ~obs["o1"].hasNextPage /\ obs["o1"].pages # <<>>
              /\ NextPointer(obs["o1"].pages[Len(obs["o1"].pages)]) = 0)
                 => ~obs'["o1"].hasNextPage
          /\ (/\ ~obs["o1"].hasPreviousPage /\ obs["o1"].pages # <<>>
              /\ PreviousPointer(obs["o1"].pages[1]) = 0)
                 => ~obs'["o1"].hasPreviousPage]_vars

\* C28: arithmetic derivation. Without extraction paths fetchNextPage
\* requests the last resident parameter + 1 and fetchPreviousPage the first
\* resident parameter - 1; no parameter below initialPageParam is ever
\* requested; and whenever the chain is not empty and no fetch is
\* outstanding, hasPreviousPage is true iff the first resident parameter
\* is greater than initialPageParam.
C28_Arithmetic ==
    [][~obs["o1"].paths =>
          LET c  == obs["o1"]
              c1 == obs'["o1"]
              started == Len(c1.tasks) = Len(c.tasks) + 1
          IN  /\ (FetchNextPage("o1") /\ started /\ c.pageParams # <<>>) =>
                     c1.tasks[Len(c1.tasks)].param
                         = c.pageParams[Len(c.pageParams)] + 1
              /\ (FetchPreviousPage("o1") /\ started /\ c.pageParams # <<>>) =>
                     c1.tasks[Len(c1.tasks)].param = c.pageParams[1] - 1
              /\ \A i \in 1..Len(c1.tasks) :
                     c1.tasks[i].param >= c.initialPageParam
              /\ (c1.pageParams # <<>> /\ c1.tasks = <<>>) =>
                     (c1.hasPreviousPage
                        <=> c1.pageParams[1] > c.initialPageParam)]_vars

\* The window has slid to 2,3,4 and fetchPreviousPage has requested page 1
C28_Witness ==
    /\ ~obs["o1"].paths
    /\ obs["o1"].pageParams = <<2, 3, 4>>
    /\ obs["o1"].hasPreviousPage
    /\ Len(obs["o1"].tasks) = 1
    /\ obs["o1"].tasks[1].kind = "previous"
    /\ obs["o1"].tasks[1].param = 1

\* C29: after resetPages() on a populated chain, once every outstanding
\* fetch has settled (the producers succeeding), pageParams is
\* [initialPageParam] and hasPreviousPage is false (the previous parameter
\* being derived arithmetically), whatever page fetches were in flight when
\* resetPages was called.
C29_ResetLeavesInitialPage ==
    (obs["o1"].sinceReset /\ obs["o1"].tasks = <<>>) =>
        /\ obs["o1"].pageParams = <<obs["o1"].initialPageParam>>
        /\ ~obs["o1"].paths => ~obs["o1"].hasPreviousPage

\* C30: refetchAll running alone re-fetches the resident parameters one at
\* a time in their order. Each success appends its page to the pages
\* re-fetched so far and starts the next parameter, the last one leaves
\* pageParams as it was before; the first failure ends it: no further
\* producer is invoked, the pages re-fetched so far stay, one onError.
C30_RefetchAll ==
    [][\A p \in 1..Len(calls) :
          LET c    == obs["o1"]
              c1   == obs'["o1"]
              t    == c.tasks[1]
              done == SubSeq(t.all, 1, Len(t.all) - Len(t.rest) - 1)
          IN  (/\ Len(c.tasks) = 1 /\ t.kind = "refetch" /\ t.call = p
               /\ c.pageParams = done) =>
                  /\ PageSettleOk("o1", p) =>
                        /\ c1.pageParams = Append(done, t.param)
                        /\ IF t.rest = <<>>
                           THEN /\ c1.tasks = <<>>
                                /\ c1.pageParams = t.all
                                /\ ~c1.isFetching
                                /\ Len(calls') = Len(calls)
                           ELSE /\ Len(c1.tasks) = 1
                                /\ c1.tasks[1].kind = "refetch"
                                /\ c1.tasks[1].param = t.rest[1]
                                /\ Len(calls') = Len(calls) + 1
                  /\ (\E e \in Errors : PageSettleErr("o1", p, e)) =>
                        /\ c1.tasks = <<>>
                        /\ Len(calls') = Len(calls)
                        /\ c1.pageParams = done
                        /\ c1.onError = 1
                        /\ c1.error \in Errors
                        /\ ~c1.isFetching]_vars

\* refetchAll of a chain of two pages has re-fetched the first one and
\* waits for the second, the last
C30_Witness ==
    /\ Len(obs["o1"].tasks) = 1
    /\ obs["o1"].tasks[1].kind = "refetch"
    /\ Len(obs["o1"].tasks[1].all) = 2
    /\ obs["o1"].tasks[1].rest = <<>>
    /\ obs["o1"].pageParams = <<obs["o1"].tasks[1].all[1]>>

\* C31: the sequencer's invalidate() invalidates every resident entry of
\* the family and then re-fetches every resident page parameter of the
\* chain, on every call, a call made while another page fetch of the same
\* sequencer is outstanding included: the chain is emptied and a refetchAll
\* over the parameters it held is started.
C31_InvalidateRefetches ==
    [][InvalidatePages("o1") =>
          /\ \A k \in PageKeys :
                 cache[k] # 0 => /\ cache'[k] = cache[k]
                                 /\ heap'[cache[k]].fetchedAt = 0
          /\ obs["o1"].pageParams # <<>> =>
                 /\ Len(obs'["o1"].tasks) = Len(obs["o1"].tasks) + 1
                 /\ LET t == obs'["o1"].tasks[Len(obs'["o1"].tasks)]
                    IN  /\ t.kind = "refetch"
                        /\ t.all = obs["o1"].pageParams
                        /\ t.param = obs["o1"].pageParams[1]]_vars

\* C32: configuration errors start no fetch. While the endpoint is missing
\* no operation of the page sequencer (initial fetch, fetchNextPage,
\* fetchPreviousPage, refetchAll, resetPages) calls the store's fetch: no
\* producer is invoked and no cache entry leaves Idle.
C32_NoFetchUnconfigured ==
    ~obs["o1"].endpoint =>
        /\ calls = <<>>
        /\ \A k \in PageKeys : cache[k] # 0 => heap[cache[k]].status = IDLE

\* C33: unobserved entries are garbage-collected. Once every component
\* that used a key has unmounted (cacheTime finite) and nothing is left
\* that could still remove an entry (no fetch outstanding, no eviction
\* timer armed), no entry the components created is resident any more,
\* pages truncated out of the maxPages window included.
C33_AllCollected ==
    (/\ \A o \in Obs : ~obs[o].mounted
     /\ timers = {}
     /\ \A p \in 1..Len(calls) : ~calls[p].pending)
        => \A k \in PageKeys : cache[k] = 0

\* C34: in every reachable state at most one producer execution is
\* outstanding per key, over any interleaving of fetch, remove,
\* removeByKey, scheduleGC, timer firing and producer completion, and the
\* in-flight marker of the entry resident under a key is present exactly
\* while a producer is outstanding for that key.
C34_OneProducerPerKey ==
    \A k \in Keys :
        LET running == {p \in 1..Len(calls) : calls[p].pending /\ calls[p].key = k}
        IN  /\ Cardinality(running) <= 1
            /\ cache[k] # 0 => (heap[cache[k]].promise # 0 <=> running # {})

\* C35: invalidation is not undone by an older fetch. The re-fetch that
\* invalidate() and invalidateCurrent() of a mounted, enabled observer
\* issue invokes the producer again, so that the data which makes the
\* entry fresh again comes from a producer call started after the
\* invalidation, also when a fetch of the key was in flight at the call.
C35_InvalidateStartsProducer ==
    [][\A o \in Obs :
          ((ObsInvalidate(o) \/ ObsInvalidateCurrent(o))
              /\ obs[o].mounted /\ obs[o].enabled) =>
             /\ Len(calls') = Len(calls) + 1
             /\ calls'[Len(calls')].key = obs[o].compositeKey
             /\ calls'[Len(calls')].pending]_vars

\* C36: with extraction paths configured, after every successful page
\* fetch (append or prepend) hasNextPage is true iff the value at
\* nextPagePath in the last resident page is present, and hasPreviousPage
\* is true iff the value at previousPagePath in the first resident page is
\* present.
C36_EdgePointers ==
    [][\A p \in 1..Len(calls) :
          (PageSettleOk("o1", p) /\ obs["o1"].paths /\ Waiting(p) # <<>>) =>
              LET c1 == obs'["o1"]
              IN  /\ c1.pages # <<>>
                  /\ c1.hasNextPage <=> NextPointer(c1.pages[Len(c1.pages)]) # 0
                  /\ c1.hasPreviousPage <=> PreviousPointer(c1.pages[1]) # 0]_vars

\* C37: in arithmetic mode (no extraction paths), in every reachable state
\* pageParams is a strictly ascending run of consecutive integers, without
\* duplicates or gaps, under any interleaving of initial fetch,
\* fetchNextPage, fetchPreviousPage, refetchAll, resetPages and producer
\* completions, with or without truncation.
C37_ConsecutiveRun ==
    ~obs["o1"].paths =>
        \A i \in 1..(Len(obs["o1"].pageParams) - 1) :
            obs["o1"].pageParams[i + 1] = obs["o1"].pageParams[i] + 1

\* C38: an entry in use is not evicted. While a page sequencer is mounted,
\* the cache entries of its resident pages are never removed by an
\* eviction timer that the unmount of another instance scheduled.
C38_InUseNotEvicted ==
    \A o \in Obs :
        obs[o].mounted =>
            \A i \in 1..Len(obs[o].pageParams) :
                cache[getCompositePageKey(obs[o].pageParams[i])] # 0

\* C40: while data is fresh no refetch occurs for paginated queries either.
\* A page sequencer that mounts when the cache entry of its initial page is
\* Success and within staleTime does not invoke the producer for that page.
C40_FreshMountNoFetch ==
    [][\A o \in Obs :
          LET k == getCompositePageKey(obs[o].initialPageParam)
          IN  (/\ MountPages(o)
               /\ cache[k] # 0
               /\ heap[cache[k]].status = SUCCESS
               /\ heap[cache[k]].promise = 0
               /\ ~isStale(heap[cache[k]].fetchedAt, obs[o].staleTime)) =>
                  /\ calls' = calls
                  /\ obs'[o].tasks = <<>>]_vars

\* C39: a mounted observer's callback is always in the subscriber set of
\* the entry currently resident under its key, so that every notification
\* of the store for that key reaches it, after any sequence of store
\* operations, remove / removeByKey followed by a lazy re-creation of the
\* entry included.
C39_MountedIsSubscribed ==
    \A o \in Obs :
        (obs[o].mounted /\ cache[obs[o].compositeKey] # 0) =>
            o \in heap[cache[obs[o].compositeKey]].subscribers
====
